---------------------------- MODULE Spec2Model ----------------------------
(***************************************************************************)
(* A model of the software rasterizer: the render target and its row       *)
(* slices (renderer.rs), the vertex pipeline and the draw loop             *)
(* (renderer.rs, lib.rs, geometry.rs) and the window-event handler of the  *)
(* application context (lib.rs, my_app.rs).                                *)
(*                                                                         *)
(* f32 values are modelled by exact rationals <<n, d>> (d > 0, lowest      *)
(* terms); rounding error of f32 arithmetic is outside the model.          *)
(* Option::None is the record None.                                        *)
(***************************************************************************)
EXTENDS Integers, Sequences, FiniteSets, TLC

VARIABLES
    target,          \* RenderTarget: color, depth, width, height, clear_color
    num_threads,     \* rayon::current_num_threads()
    slices,          \* Vec<RenderSlice> of the running draw_buffer call
    pc,              \* position in draw_buffer: "idle", "sliced", "raster"
    screen_vertices, \* Vec<Vertex> built by the transform phase
    progress,        \* per slice worker: triangles of screen_vertices done
    draw,            \* arguments of the running / last draw_buffer call
    before,          \* history: the target when that call was entered
    writers,         \* history: global pixel index -> workers that wrote it
    stepWrites,      \* history: the writes of the last worker step
    frags,           \* history: shaded fragments offered per pixel since clear
    lastOp,          \* history: the last operation executed
    ndraws,          \* history: draw_buffer calls since the last clear
    app,             \* AppContext (lib.rs) with its user state (my_app.rs)
    call,            \* a call of one function on its own: name and arguments
    ret,             \* what that call returned
    files            \* the asset files MyApp names: path -> state on disk

vars == <<target, num_threads, slices, pc, screen_vertices, progress, draw,
          before, writers, stepWrites, frags, lastOp, ndraws, app, call, ret,
          files>>

None == [none |-> TRUE]

\* F applied to the value of v: v is evaluated once, as a `let` binding is
Let(v, F(_)) == CHOOSE r \in {F(x) : x \in {v}} : TRUE

\* what a call that panics leaves in place of its result
Panic == <<[panic |-> TRUE]>>

----------------------------------------------------------------------------
(* Bounds of the model                                                     *)

MaxW == 3
MaxH == 5
MaxThreads == 4
Width == 4
Height == 4
MaxDraws == 2
MaxSize == 2
MaxCoord == 2
MaxTex == 3

----------------------------------------------------------------------------
(* Exact rational arithmetic standing for f32                              *)

Abs(x) == IF x < 0 THEN -x ELSE x

Min(a, b) == IF a < b THEN a ELSE b

Max(a, b) == IF a > b THEN a ELSE b

RECURSIVE GCD(_, _)
GCD(a, b) == IF b = 0 THEN a ELSE GCD(b, a % b)

RNorm(n, d) ==
    IF n = 0 THEN <<0, 1>>
    ELSE LET g == GCD(Abs(n), Abs(d))
             s == IF d < 0 THEN -1 ELSE 1
         IN  <<(s * n) \div g, (s * d) \div g>>

R(k) == <<k, 1>>

RAdd(a, b) == RNorm(a[1] * b[2] + b[1] * a[2], a[2] * b[2])

RNeg(a) == <<-a[1], a[2]>>

RSub(a, b) == RAdd(a, RNeg(b))

RMul(a, b) == RNorm(a[1] * b[1], a[2] * b[2])

RDiv(a, b) == RNorm(a[1] * b[2], a[2] * b[1])

RLt(a, b) == a[1] * b[2] < b[1] * a[2]

RLe(a, b) == a[1] * b[2] <= b[1] * a[2]

RMin(a, b) == IF RLt(b, a) THEN b ELSE a

RMax(a, b) == IF RLt(a, b) THEN b ELSE a

RAbs(a) == <<Abs(a[1]), a[2]>>

\* `x as u32` of a finite f32: truncation, saturating at 0 for negatives
AsU32(a) == IF a[1] <= 0 THEN 0 ELSE a[1] \div a[2]

\* `x as i32` of a finite f32: truncation towards zero
AsI32(a) == IF a[1] >= 0 THEN a[1] \div a[2] ELSE -((-a[1]) \div a[2])

\* f32::round of a finite value: to the nearest integer, halves away from
\* zero
RRound(a) ==
    IF a[1] >= 0 THEN (2 * a[1] + a[2]) \div (2 * a[2])
    ELSE -((2 * (-a[1]) + a[2]) \div (2 * a[2]))

\* the square root of a square of a rational
ISqrt(k) == CHOOSE r \in 0..k : r * r = k

RSqrt(a) == <<ISqrt(a[1]), ISqrt(a[2])>>

\* f32::MAX, the depth buffer's "far" sentinel: above every depth of the model
F32_MAX == <<1, 0>>

----------------------------------------------------------------------------
(* Vertices, camera and the vertex pipeline (geometry.rs, camera.rs)         *)

\* an f32 NaN (0.0 * inf); only the operators below that can meet it test it
NaN == <<0, 0>>

IsNaN(a) == a = NaN

\* Vertex::new: the position made homogeneous, no attributes
Vertex_new(p) ==
    [position |-> <<R(p[1]), R(p[2]), R(p[3]), R(1)>>,
     normal   |-> None,
     color    |-> None,
     uv       |-> None]

Vector2_new(x, y) == [x |-> x, y |-> y]

Vector3_new(x, y, z) == [x |-> x, y |-> y, z |-> z]

Color_new(r, g, b, a) == [r |-> r, g |-> g, b |-> b, a |-> a]

\* Matrix4::new_perspective(aspect_ratio, fov, near, far): its non-zero
\* entries.  focal stands for 1 / tan(fov / 2).
get_perspective_matrix(c) ==
    [m11 |-> RDiv(c.focal, c.aspect_ratio),
     m22 |-> c.focal,
     m33 |-> RDiv(RAdd(c.far, c.near), RSub(c.near, c.far)),
     m34 |-> RDiv(RMul(R(2), RMul(c.far, c.near)), RSub(c.near, c.far)),
     m43 |-> R(-1)]

\* mvp * (x, y, z, 1) for mvp = perspective * view * transform * scale with
\* view, transform and scale the identity: the model's vertices are given in
\* the camera's frame (camera at the origin, identity orientation).
mvp_mul(m, p) ==
    <<RMul(m.m11, p[1]),
      RMul(m.m22, p[2]),
      RAdd(RMul(m.m33, p[3]), m.m34),
      RMul(m.m43, p[3])>>

\* nalgebra Matrix4::transform_point: the product divided by its w unless
\* that is zero.
transform_point(m, p) ==
    LET q == mvp_mul(m, p) IN
    IF q[4] # R(0)
    THEN <<RDiv(q[1], q[4]), RDiv(q[2], q[4]), RDiv(q[3], q[4])>>
    ELSE <<q[1], q[2], q[3]>>

world_to_clip(v, mvp_mat) ==
    LET t == transform_point(mvp_mat, v.position) IN
    [v EXCEPT !.position = <<t[1], t[2], t[3], R(1)>>]

clip_to_ndc(v) ==
    LET p == v.position IN
    IF p[4] # R(0)
    THEN [v EXCEPT !.position = <<RDiv(p[1], p[4]), RDiv(p[2], p[4]),
                                  RDiv(p[3], p[4]), RDiv(p[4], p[4])>>]
    ELSE v

ndc_to_screen(v, size) ==
    LET p == v.position
        h == <<1, 2>>
    IN  [v EXCEPT !.position =
            <<RMul(RMul(RAdd(p[1], R(1)), h), R(size[1])),
              RMul(RMul(RSub(R(1), p[2]), h), R(size[2])),
              p[3], p[4]>>]

\* Vector3::normalize: the vector divided by its norm; the zero vector
\* gives 0.0 / 0.0 in every component
normalize(n) ==
    IF IsNaN(n.x) \/ n = Vector3_new(R(0), R(0), R(0))
    THEN Vector3_new(NaN, NaN, NaN)
    ELSE Let(RSqrt(RAdd(RAdd(RMul(n.x, n.x), RMul(n.y, n.y)),
                        RMul(n.z, n.z))), LAMBDA norm :
             Vector3_new(RDiv(n.x, norm), RDiv(n.y, norm), RDiv(n.z, norm)))

\* update_normal with the identity as model_mat: a normal is normalized, a
\* vertex without one is cloned
update_normal(v) ==
    IF v.normal # None THEN [v EXCEPT !.normal = normalize(v.normal)] ELSE v

xy(v) == <<v.position[1], v.position[2]>>

\* Bounds::new(points, screen) for a triangle, then x_range / y_range
Bounds_new(points, screen) ==
    LET min_x == RMin(RMin(points[1].position[1], points[2].position[1]),
                      points[3].position[1])
        min_y == RMin(RMin(points[1].position[2], points[2].position[2]),
                      points[3].position[2])
        max_x == RMax(RMax(points[1].position[1], points[2].position[1]),
                      points[3].position[1])
        max_y == RMax(RMax(points[1].position[2], points[2].position[2]),
                      points[3].position[2])
    IN  [min_x |-> RMax(min_x, R(0)),
         min_y |-> RMax(min_y, R(0)),
         max_x |-> RMin(max_x, R(screen[1])),
         max_y |-> RMin(max_y, R(screen[2]))]

x_range(b) == AsU32(b.min_x)..AsU32(b.max_x)

y_range(b) == AsU32(b.min_y)..AsU32(b.max_y)

perpendicular_vector(v) == <<v[2], RNeg(v[1])>>

signed_area_ab_ac(a, b, c) ==
    Let(<<RSub(c[1], a[1]), RSub(c[2], a[2])>>, LAMBDA ac :
    Let(perpendicular_vector(<<RSub(b[1], a[1]), RSub(b[2], a[2])>>),
        LAMBDA ab_perp :
    RDiv(RAdd(RMul(ab_perp[2], ac[1]), RMul(ab_perp[1], ac[2])), R(-2))))

signed_area(a, b, c) ==
    Let(<<RSub(c[1], a[1]), RSub(c[2], a[2])>>, LAMBDA ac :
    Let(perpendicular_vector(<<RSub(b[1], a[1]), RSub(b[2], a[2])>>),
        LAMBDA ab_perp :
    RDiv(RAdd(RMul(ac[1], ab_perp[1]), RMul(ac[2], ab_perp[2])), R(2))))

\* f32 infinities
Inf == <<2, 0>>

NegInf == <<-2, 0>>

\* `area * inv_area_sum` with inv_area_sum = 1.0 / sum: 1.0 / 0.0 is inf, and
\* inf times an area is NaN for a zero area and an infinity otherwise
times_inverse(area, sum) ==
    IF sum # R(0) THEN RDiv(area, sum)
    ELSE IF area = R(0) THEN NaN
    ELSE IF RLt(R(0), area) THEN Inf ELSE NegInf

\* the three weights in the order (area_abp, area_bcp, area_cap)
barycentric_weights_rotated(a, b, c, p) ==
    Let(signed_area(a, b, p), LAMBDA area_abp :
    Let(signed_area(b, c, p), LAMBDA area_bcp :
    Let(signed_area(c, a, p), LAMBDA area_cap :
    Let(RAdd(RAdd(area_abp, area_bcp), area_cap), LAMBDA sum :
        <<times_inverse(area_abp, sum), times_inverse(area_bcp, sum),
          times_inverse(area_cap, sum)>>))))

\* the body of triangle_barycentric from the three positions' xy on:
\* (weight_a, weight_b, weight_c)
barycentric_weights(a, b, c, p) ==
    Let(signed_area(a, b, p), LAMBDA area_abp :
    Let(signed_area(b, c, p), LAMBDA area_bcp :
    Let(signed_area(c, a, p), LAMBDA area_cap :
    Let(RAdd(RAdd(area_abp, area_bcp), area_cap), LAMBDA sum :
        <<times_inverse(area_bcp, sum), times_inverse(area_cap, sum),
          times_inverse(area_abp, sum)>>))))

triangle_barycentric(triangle, p) ==
    barycentric_weights(xy(triangle[1]), xy(triangle[2]), xy(triangle[3]), p)

\* the inside test: the three edges' signed areas are all >= 0
edges_inside(a, b, c, p) ==
    /\ RLe(R(0), signed_area(a, b, p))
    /\ RLe(R(0), signed_area(b, c, p))
    /\ RLe(R(0), signed_area(c, a, p))

\* (inside, weights): the inside test and the weights triangle_barycentric
\* computes.  A zero area sum makes every weight of an inside point
\* 0 * inf = NaN.
point_in_triangle(a, b, c, p) ==
    [inside  |-> edges_inside(a, b, c, p),
     weights |-> barycentric_weights(a, b, c, p)]

----------------------------------------------------------------------------
(* RenderTarget (renderer.rs; lib.rs has the same new / clear)              *)

\* 2^16: a u32 is kept as two 16-bit halves <<high, low>> where a product
\* of two u32 is taken, so that the product wraps at 2^32
U16 == 65536

U32Halves(a) == <<a \div U16, a % U16>>

\* u32 addition, wrapping
U32Add(p, q) ==
    <<(p[1] + q[1] + (p[2] + q[2]) \div U16) % U16, (p[2] + q[2]) % U16>>

\* p * b mod 2^32 by doubling
RECURSIVE U32MulHalves(_, _)
U32MulHalves(p, b) ==
    IF b = 0 THEN <<0, 0>>
    ELSE U32Add(IF b % 2 = 1 THEN p ELSE <<0, 0>>,
                U32MulHalves(U32Add(p, p), b \div 2))

\* `width * height` on u32 with overflow checks off: the product mod 2^32
wrapping_mul(a, b) ==
    Let(U32MulHalves(U32Halves(a), b), LAMBDA r : r[1] * U16 + r[2])

\* the u32 product does not fit: with overflow checks on the multiplication
\* panics
mul_overflows(a, b) ==
    a # 0 /\ (wrapping_mul(a, b) % a # 0 \/ wrapping_mul(a, b) \div a # b)

\* RenderTarget::new; the buffers' length is `(width * height) as usize`
RenderTarget_new(width, height) ==
    [color       |-> [i \in 1..wrapping_mul(width, height) |-> 0],
     depth       |-> [i \in 1..wrapping_mul(width, height) |-> F32_MAX],
     width       |-> width,
     height      |-> height,
     clear_color |-> 0]

clear_color_only(t) ==
    [t EXCEPT !.color = [i \in 1..Len(t.color) |-> t.clear_color]]

\* RenderTarget::clear
clear(t) ==
    [t EXCEPT !.color = [i \in 1..Len(t.color) |-> t.clear_color],
              !.depth = [i \in 1..Len(t.depth) |-> F32_MAX]]

rows_per_thread_floor(height, n) == height \div n

\* ceiling division of the rows among the workers
rows_per_thread(height, n) == (height + n - 1) \div n

\* One pass of the `for i in 0..num_threads` loop.  `off` is how much of the
\* buffers split_at_mut has already handed out: the next slice begins there
\* (field base, the slice's place in the parent buffer).  split_at_mut
\* panics when asked for more than what remains.
RECURSIVE create_slices_loop(_, _, _, _, _, _)
create_slices_loop(t, n, rpt, i, off, acc) ==
    IF i >= n THEN acc
    ELSE LET y_start == i * rpt
             y_end   == Min(y_start + rpt, t.height)
         IN  IF y_start >= t.height THEN acc
             ELSE LET start_idx == y_start * t.width
                      end_idx   == y_end * t.width
                      len       == end_idx - start_idx
                  IN  IF len > Len(t.color) - off \/ len > Len(t.depth) - off
                      THEN Panic
                      ELSE create_slices_loop(t, n, rpt, i + 1, off + len,
                             Append(acc,
                               [color_slice |-> SubSeq(t.color, off + 1, off + len),
                                depth_slice |-> SubSeq(t.depth, off + 1, off + len),
                                start |-> y_start,
                                end   |-> y_end,
                                width |-> t.width,
                                base  |-> off]))

create_slices(t, n) ==
    create_slices_loop(t, n, rows_per_thread(t.height, n), 0, 0, << >>)

----------------------------------------------------------------------------
(* Colors and the per-slice drawing routines (renderer.rs)                   *)

EpsDen == 1000000

\* x.abs() > 1e-6 (false for NaN)
AbsGtEps(a) ==
    /\ ~IsNaN(a)
    /\ a[1] # 0
    /\ (a[2] < EpsDen \/ Abs(a[1]) * EpsDen > a[2])

RECURSIVE BitOr(_, _)
BitOr(a, b) ==
    IF a = 0 THEN b
    ELSE IF b = 0 THEN a
    ELSE (IF a % 2 = 1 \/ b % 2 = 1 THEN 1 ELSE 0)
         + 2 * BitOr(a \div 2, b \div 2)

\* Color::as_u32: blue | (green << 8) | (red << 16)
as_u32(c) ==
    LET red   == AsU32(RMul(c.r, R(255)))
        green == AsU32(RMul(c.g, R(255)))
        blue  == AsU32(RMul(c.b, R(255)))
    IN  BitOr(BitOr(blue, green * 256), red * 65536)

Mix3(p, q, r, w) ==
    IF IsNaN(w[1]) THEN NaN
    ELSE RAdd(RAdd(RMul(p, w[1]), RMul(q, w[2])), RMul(r, w[3]))

interpolate_swapped(c1, c2, c3, weights) ==
    Color_new(Mix3(c2.r, c1.r, c3.r, weights),
              Mix3(c2.g, c1.g, c3.g, weights),
              Mix3(c2.b, c1.b, c3.b, weights),
              R(1))

\* Color::interpolate
interpolate(c1, c2, c3, weights) ==
    Color_new(Mix3(c1.r, c2.r, c3.r, weights),
              Mix3(c1.g, c2.g, c3.g, weights),
              Mix3(c1.b, c2.b, c3.b, weights),
              R(1))

White == Color_new(R(1), R(1), R(1), R(1))

\* Color::from_rgba
from_rgba(r, g, b, a) ==
    Color_new(<<r, 255>>, <<g, 255>>, <<b, 255>>, <<a, 255>>)

\* Color::scalar_mul; a NaN channel stays NaN
scalar_mul(c, scalar) ==
    [c EXCEPT !.r = IF IsNaN(@) THEN NaN ELSE RMul(@, scalar),
              !.g = IF IsNaN(@) THEN NaN ELSE RMul(@, scalar),
              !.b = IF IsNaN(@) THEN NaN ELSE RMul(@, scalar)]

no_clamp(a) == a

\* f32::clamp(0.0, 1.0); NaN stays NaN
clamp01(a) ==
    IF IsNaN(a) THEN NaN
    ELSE IF RLt(a, R(0)) THEN R(0) ELSE IF RLt(R(1), a) THEN R(1) ELSE a

\* `(c * (size as f32 - 1.0)).round() as u32`; the cast takes NaN and the
\* negative values to 0
texel_coord(c, size) ==
    IF IsNaN(c) THEN 0 ELSE Max(RRound(RMul(c, R(size - 1))), 0)

\* GenericImageView::get_pixel: the image's texels in row-major order
get_pixel(texture, x, y) == texture.pixels[y * texture.width + x + 1]

\* the texel Texture::sample reads for tex_coord, or None
sample_texel(texture, tex_coord) ==
    LET x == texel_coord(clamp01(tex_coord.x), texture.width)
        y == texel_coord(IF IsNaN(tex_coord.y) THEN NaN
                         ELSE RSub(R(1), clamp01(tex_coord.y)), texture.height)
    IN  IF x < texture.width /\ y < texture.height
        THEN [x |-> x, y |-> y]
        ELSE None

\* Texture::sample
sample(texture, tex_coord) ==
    Let(sample_texel(texture, tex_coord), LAMBDA t :
        IF t = None THEN None
        ELSE Let(get_pixel(texture, t.x, t.y), LAMBDA px :
                 from_rgba(px[1], px[2], px[3], px[4])))

\* calculate_uvs
calculate_uvs(triangle, weights) ==
    IF \A k \in 1..3 : triangle[k].uv # None
    THEN Vector2_new(Mix3(triangle[1].uv.x, triangle[2].uv.x,
                          triangle[3].uv.x, weights),
                     Mix3(triangle[1].uv.y, triangle[2].uv.y,
                          triangle[3].uv.y, weights))
    ELSE None

\* calculate_normals
calculate_normals(triangle, weights) ==
    IF \A k \in 1..3 : triangle[k].normal # None
    THEN normalize(Vector3_new(
             Mix3(triangle[1].normal.x, triangle[2].normal.x,
                  triangle[3].normal.x, weights),
             Mix3(triangle[1].normal.y, triangle[2].normal.y,
                  triangle[3].normal.y, weights),
             Mix3(triangle[1].normal.z, triangle[2].normal.z,
                  triangle[3].normal.z, weights)))
    ELSE None

\* `Vector3::dot(&normal, &light_dir).max(0.01)`; f32::max drops a NaN
intensity(normal, light_dir) ==
    IF IsNaN(normal.x) THEN <<1, 100>>
    ELSE RMax(RAdd(RAdd(RMul(normal.x, light_dir.x),
                        RMul(normal.y, light_dir.y)),
                   RMul(normal.z, light_dir.z)), <<1, 100>>)

\* `if let Some(normal) = calculate_normals(..) { color.scalar_mul(..) }`
lit(color, triangle, weights, light_dir) ==
    Let(calculate_normals(triangle, weights), LAMBDA normal :
        IF normal = None THEN color
        ELSE scalar_mul(color, intensity(normal, light_dir)))

\* `texture.sample(&uv)` or white where there is no sample
sample_or_white(texture, uv) ==
    Let(sample(texture, uv), LAMBDA color :
        IF color = None THEN White ELSE color)

\* the Textured arm: white without UVs
textured_color(texture, triangle, weights) ==
    Let(calculate_uvs(triangle, weights), LAMBDA uv :
        IF uv = None THEN White ELSE sample_or_white(texture, uv))

\* the color the LitTexture arm samples: `uv.unwrap_or(Point2::origin())`
lit_texture_base(texture, triangle, weights) ==
    Let(calculate_uvs(triangle, weights), LAMBDA uv :
        sample_or_white(texture,
                        IF uv = None THEN Vector2_new(R(0), R(0)) ELSE uv))

\* the `match material` of draw_triangle
texture_color(material, triangle, weights) ==
    IF material.kind = "SolidColor" THEN material.color
    ELSE IF material.kind = "VertexColors"
    THEN IF /\ triangle[1].color # None
            /\ triangle[2].color # None
            /\ triangle[3].color # None
         THEN interpolate(triangle[1].color, triangle[2].color,
                          triangle[3].color, weights)
         ELSE White
    ELSE IF material.kind = "Textured"
    THEN textured_color(material.texture, triangle, weights)
    ELSE IF material.kind = "LitTexture"
    THEN lit(lit_texture_base(material.texture, triangle, weights),
             triangle, weights, material.light_dir)
    ELSE lit(material.color, triangle, weights, material.light_dir)

\* 1.0 / z, or 0.0 when z is within 1e-6 of zero
guarded_recip(z) == IF AbsGtEps(z) THEN RDiv(R(1), z) ELSE R(0)

\* the fragment's depth: 1 / dot(depths, weights), or 0.0
fragment_depth(triangle, weights) ==
    LET d == Mix3(guarded_recip(triangle[1].position[3]),
                  guarded_recip(triangle[2].position[3]),
                  guarded_recip(triangle[3].position[3]), weights)
    IN  guarded_recip(d)

depth_test_skips_ge(depth, stored) ==
    IF stored = F32_MAX THEN FALSE ELSE RLe(stored, depth)

depth_test_skips_lt(depth, stored) ==
    IF stored = F32_MAX THEN ~IsNaN(depth) ELSE RLt(depth, stored)

\* `depth > slice.depth_slice[idx]`: the fragment is skipped
depth_test_skips(depth, stored) ==
    IF stored = F32_MAX THEN FALSE ELSE RLt(stored, depth)

\* the index of pixel (x, y) in the whole target, not relative to the slice
local_index_global(s, x, y) == y * s.width + x

\* the index of pixel (x, y) relative to the slice
local_index(s, x, y) == (y - s.start) * s.width + x

\* The drawing routines thread an accumulator: the slice being written, the
\* writes done (pixel and local index) and the shaded fragments that reached
\* the depth test.
NewAcc(s) == [slice |-> s, writes |-> {}, frags |-> {}]

\* the slice after `color_slice[idx] = c`, one write for every element of ws
\* (records with fields idx and color, at most one for an index)
WriteColor(s, ws) ==
    [s EXCEPT !.color_slice =
        [i \in 1..Len(s.color_slice) |->
            IF \E w \in ws : w.idx + 1 = i
            THEN (CHOOSE w \in ws : w.idx + 1 = i).color
            ELSE s.color_slice[i]]]

\* the slice after `depth_slice[idx] = depth` for every element of ws
WriteDepth(s, ws) ==
    [s EXCEPT !.depth_slice =
        [i \in 1..Len(s.depth_slice) |->
            IF \E w \in ws : w.idx + 1 = i
            THEN (CHOOSE w \in ws : w.idx + 1 = i).depth
            ELSE s.depth_slice[i]]]

WritesOf(ws) == {[x |-> w.x, y |-> w.y, idx |-> w.idx] : w \in ws}

\* the body of draw_triangle's loops for pixel (x, y), up to the depth test:
\* the fragment that reaches the test, or None
draw_triangle_pixel(s, triangle, material, x, y) ==
    IF y < s.start \/ y >= s.end THEN None
    ELSE
    Let(point_in_triangle(xy(triangle[1]), xy(triangle[2]),
                          xy(triangle[3]), <<R(x), R(y)>>), LAMBDA pit :
        IF ~pit.inside THEN None
        ELSE
        LET idx == local_index(s, x, y)
        IN  IF idx < Len(s.color_slice) /\ x >= 0 /\ x < s.width
            THEN [x |-> x, y |-> y, idx |-> idx,
                  depth |-> fragment_depth(triangle, pit.weights),
                  color |-> as_u32(texture_color(material, triangle,
                                                 pit.weights))]
            ELSE None)

\* draw_triangle; screen is the target size given to Bounds::new. The loops
\* visit every pixel of the bounds once and a pixel's pass touches only the
\* pixel's own index, so the passes are taken together.
draw_triangle(acc, triangle, material, screen) ==
    LET s == acc.slice IN
    Let(Bounds_new(triangle, screen), LAMBDA bounds :
    Let({draw_triangle_pixel(s, triangle, material, q[1], q[2]) :
           q \in x_range(bounds) \X y_range(bounds)} \ {None}, LAMBDA reach :
    Let({f \in reach :
           ~depth_test_skips(f.depth, s.depth_slice[f.idx + 1])}, LAMBDA pass :
        [slice  |-> WriteDepth(WriteColor(s, pass), pass),
         writes |-> acc.writes \cup WritesOf(pass),
         frags  |-> acc.frags \cup reach])))

line_pixel_in_slice_neg(s, x, y) ==
    y >= s.start /\ y < s.end /\ x < s.width

\* draw_line's test before it writes pixel (x, y)
line_pixel_in_slice(s, x, y) ==
    y >= s.start /\ y < s.end /\ x >= 0 /\ x < s.width

\* the pixels draw_line's loop visits from (x, y) with error term err
RECURSIVE draw_line_loop(_, _, _, _)
draw_line_loop(x, y, err, c) ==
    IF x = c.x1 /\ y = c.y1 THEN {<<x, y>>}
    ELSE LET e2    == 2 * err
             stepx == e2 >= c.dy
             err1  == IF stepx THEN err + c.dy ELSE err
             x2    == IF stepx THEN x + c.sx ELSE x
             stepy == e2 <= c.dx
             err2  == IF stepy THEN err1 + c.dx ELSE err1
             y2    == IF stepy THEN y + c.sy ELSE y
         IN  {<<x, y>>} \cup draw_line_loop(x2, y2, err2, c)

\* the pixels draw_line visits between two screen vertices
draw_line_visits(p1, p2) ==
    LET x0 == AsI32(p1.position[1])
        y0 == AsI32(p1.position[2])
        x1 == AsI32(p2.position[1])
        y1 == AsI32(p2.position[2])
        dx == Abs(x1 - x0)
        dy == -Abs(y1 - y0)
    IN  draw_line_loop(x0, y0, dx + dy,
                       [x1 |-> x1, y1 |-> y1, dx |-> dx, dy |-> dy,
                        sx |-> IF x0 < x1 THEN 1 ELSE -1,
                        sy |-> IF y0 < y1 THEN 1 ELSE -1])

\* draw_line: every visited pixel that passes the tests gets the color
draw_line(acc, p1, p2, color) ==
    LET s    == acc.slice
        hits == {q \in draw_line_visits(p1, p2) :
                   /\ line_pixel_in_slice(s, q[1], q[2])
                   /\ local_index(s, q[1], q[2]) < Len(s.color_slice)}
        ws   == {[x |-> q[1], y |-> q[2], idx |-> local_index(s, q[1], q[2]),
                  color |-> color] : q \in hits}
    IN  [acc EXCEPT !.slice = WriteColor(s, ws),
                    !.writes = @ \cup WritesOf(ws)]

\* f32::ceil of a finite value
RCeil(a) == -((-a[1]) \div a[2])

draw_point_hits_wide(s, point, size) ==
    LET px == point.position[1]
        py == point.position[2]
        cs == R(RCeil(size))
        xs == AsU32(RSub(px, cs))..(AsU32(RAdd(px, cs)) - 1)
        ys == AsU32(RSub(py, cs))..(AsU32(RAdd(py, cs)) - 1)
    IN  {q \in xs \X ys :
            /\ q[2] >= s.start /\ q[2] < s.end /\ q[1] >= 0
            /\ local_index(s, q[1], q[2]) < Len(s.color_slice)
            /\ LET ddx == RSub(R(q[1]), px)
                   ddy == RSub(R(q[2]), py)
               IN  RLt(RAdd(RMul(ddx, ddx), RMul(ddy, ddy)), RMul(size, size))}

\* the pixels draw_point's two loops visit and accept for this slice
draw_point_hits(s, point, size) ==
    LET px == point.position[1]
        py == point.position[2]
        cs == R(RCeil(size))
        xs == AsU32(RSub(px, cs))..(AsU32(RAdd(px, cs)) - 1)
        ys == AsU32(RSub(py, cs))..(AsU32(RAdd(py, cs)) - 1)
    IN  {q \in xs \X ys :
            /\ q[2] >= s.start /\ q[2] < s.end /\ q[1] >= 0 /\ q[1] < s.width
            /\ local_index(s, q[1], q[2]) < Len(s.color_slice)
            /\ LET ddx == RSub(R(q[1]), px)
                   ddy == RSub(R(q[2]), py)
               IN  RLt(RAdd(RMul(ddx, ddx), RMul(ddy, ddy)), RMul(size, size))}

\* draw_point: every accepted pixel gets the color
draw_point(acc, point, size, color) ==
    LET s  == acc.slice
        ws == {[x |-> q[1], y |-> q[2], idx |-> local_index(s, q[1], q[2]),
                color |-> color] : q \in draw_point_hits(s, point, size)}
    IN  [acc EXCEPT !.slice = WriteColor(s, ws),
                    !.writes = @ \cup WritesOf(ws)]

\* the calls the body of the `for triangle in ...chunks_exact(3)` loop makes
\* for a DrawMode, in order; p1 and p2 are the positions in the triangle of
\* the vertices passed
draw_calls(mode) ==
    (IF mode.shaded
     THEN <<[op |-> "draw_triangle", p1 |-> 1, p2 |-> 1]>> ELSE << >>)
    \o (IF mode.wireframe
        THEN <<[op |-> "draw_line", p1 |-> 1, p2 |-> 2],
               [op |-> "draw_line", p1 |-> 2, p2 |-> 3],
               [op |-> "draw_line", p1 |-> 3, p2 |-> 1]>>
        ELSE << >>)
    \o (IF mode.points
        THEN <<[op |-> "draw_point", p1 |-> 1, p2 |-> 1],
               [op |-> "draw_point", p1 |-> 2, p2 |-> 2],
               [op |-> "draw_point", p1 |-> 3, p2 |-> 3]>>
        ELSE << >>)

\* one of those calls; color and size are draw_buffer's locals
draw_call(acc, c, triangle, material, screen) ==
    IF c.op = "draw_triangle"
    THEN draw_triangle(acc, triangle, material, screen)
    ELSE IF c.op = "draw_line"
    THEN draw_line(acc, triangle[c.p1], triangle[c.p2], as_u32(White))
    ELSE draw_point(acc, triangle[c.p1], R(2), as_u32(White))

RECURSIVE draw_calls_from(_, _, _, _, _, _)
draw_calls_from(acc, calls, k, triangle, material, screen) ==
    IF k > Len(calls) THEN acc
    ELSE draw_calls_from(draw_call(acc, calls[k], triangle, material, screen),
                         calls, k + 1, triangle, material, screen)

\* the body of the `for triangle in ...chunks_exact(3)` loop of a slice worker
draw_chunk(acc, triangle, material, mode, screen) ==
    draw_calls_from(acc, draw_calls(mode), 1, triangle, material, screen)

----------------------------------------------------------------------------
(* The transform phase of draw_buffer and its slice workers (renderer.rs)    *)

is_visible_le(verts, size) ==
    \A k \in 1..Len(verts) :
        /\ RLe(verts[k].position[1], R(size[1]))
        /\ RLe(verts[k].position[2], R(size[2]))

\* `verts.iter().all(|v| v.position.x < width && v.position.y < height)`
is_visible(verts, size) ==
    \A k \in 1..Len(verts) :
        /\ RLt(verts[k].position[1], R(size[1]))
        /\ RLt(verts[k].position[2], R(size[2]))

transform_chunk_per_vertex(vertices, mvp_mat, size) ==
    LET verts == [k \in 1..Len(vertices) |->
                    ndc_to_screen(clip_to_ndc(world_to_clip(vertices[k], mvp_mat)),
                                  size)]
    IN  SelectSeq([k \in 1..Len(verts) |-> update_normal(verts[k])],
                  LAMBDA v : is_visible(<<v>>, size))

\* the closure given to flat_map, for one chunk of par_chunks(3)
transform_chunk(vertices, mvp_mat, size) ==
    LET verts == [k \in 1..Len(vertices) |->
                    ndc_to_screen(clip_to_ndc(world_to_clip(vertices[k], mvp_mat)),
                                  size)]
    IN  IF ~is_visible(verts, size) THEN << >>
        ELSE [k \in 1..Len(verts) |-> update_normal(verts[k])]

\* par_chunks(3).flat_map(..).collect(): the chunks' results in input order;
\* the last chunk holds the 1 or 2 vertices left over
RECURSIVE transform_phase(_, _, _, _)
transform_phase(vertices, mvp_mat, size, i) ==
    IF i > Len(vertices) THEN << >>
    ELSE transform_chunk(SubSeq(vertices, i, Min(i + 2, Len(vertices))),
                         mvp_mat, size)
         \o transform_phase(vertices, mvp_mat, size, i + 3)

\* slice.chunks_exact(3)
chunks_exact(seq) ==
    [k \in 1..(Len(seq) \div 3) |-> SubSeq(seq, 3 * k - 2, 3 * k)]

\* the closure given to par_iter_mut().for_each: the slice's worker handles
\* triangles k.. of the list in order
RECURSIVE slice_worker(_, _, _, _, _, _)
slice_worker(acc, triangles, k, material, mode, screen) ==
    IF k > Len(triangles) THEN acc
    ELSE slice_worker(draw_chunk(acc, triangles[k], material, mode, screen),
                      triangles, k + 1, material, mode, screen)

\* the buffers as the slices' exclusive borrows leave them: element i of the
\* parent buffer is element i - base of the slice that holds it
joined(buffer, sl, field) ==
    [i \in 1..Len(buffer) |->
        IF \E k \in 1..Len(sl) : sl[k].base < i /\ i <= sl[k].base + Len(sl[k][field])
        THEN LET k == CHOOSE k \in 1..Len(sl) :
                        sl[k].base < i /\ i <= sl[k].base + Len(sl[k][field])
             IN  sl[k][field][i - sl[k].base]
        ELSE buffer[i]]

join(t, sl) ==
    [t EXCEPT !.color = joined(t.color, sl, "color_slice"),
              !.depth = joined(t.depth, sl, "depth_slice")]

\* draw_buffer with n = rayon::current_num_threads(): the target when the
\* call returns, the screen vertices it built, and the shaded fragments its
\* workers brought to the depth test (at their global pixel index)
draw_buffer(t, n, model, material, mode, camera) ==
    LET screen == <<t.width, t.height>> IN
    Let(transform_phase(model.vertices, get_perspective_matrix(camera),
                        screen, 1), LAMBDA sv :
    Let(create_slices(t, n), LAMBDA sl :
    Let([i \in 1..Len(sl) |->
           slice_worker(NewAcc(sl[i]), chunks_exact(sv), 1,
                        material, mode, screen)], LAMBDA done :
        [target |-> join(t, [i \in 1..Len(sl) |-> done[i].slice]),
         screen_vertices |-> sv,
         frags  |-> UNION {{[p |-> sl[i].base + f.idx + 1, depth |-> f.depth,
                             color |-> f.color] : f \in done[i].frags} :
                           i \in 1..Len(sl)}])))

----------------------------------------------------------------------------
(* Inputs: cameras, colors, triangles and models                             *)

\* Camera::new(origin, (0, 0, 1), y, fov, aspect, near, far) with
\* tan(fov / 2) = 1: identity orientation, so the view matrix is the identity
Cameras ==
    {[focal |-> R(1), aspect_ratio |-> R(1), near |-> R(2), far |-> R(8)]}

Red == Color_new(R(1), R(0), R(0), R(1))

Green == Color_new(R(0), R(1), R(0), R(1))

Blue == Color_new(R(0), R(0), R(1), R(1))

\* a vertex at camera-space (x, y, -d): d is its view-space depth
V(x, y, d, c) == [Vertex_new(<<x, y, -d>>) EXCEPT !.color = c]

\* view-space depth of a model vertex (the camera looks down -z)
ViewDepth(v) == RNeg(v.position[3])

\* covers the target; two vertices left of and above it
Full4 == <<V(3, -3, 4, Red), V(3, 20, 4, Red), V(-20, -3, 4, Red)>>

\* the same screen triangle on the far plane
Full8 == <<V(6, -6, 8, Green), V(6, 40, 8, Green), V(-40, -6, 8, Green)>>

\* the same screen triangle beyond the far plane
Full16 == <<V(12, -12, 16, Green), V(12, 80, 16, Green), V(-80, -12, 16, Green)>>

\* depths 2, 4 and 8 and three vertex colors
Mixed == <<V(1, -1, 2, Red), V(2, 4, 4, Green), V(-8, -4, 8, Blue)>>

\* one vertex nearer than the near plane
NearTri == <<V(0, 0, 1, Red), V(0, 20, 4, Red), V(-20, 0, 4, Red)>>

\* one vertex behind the camera
BehindTri == <<V(0, 0, -2, Red), V(0, 20, 4, Red), V(-20, 0, 4, Red)>>

\* one vertex in the camera's plane (clip w = 0)
W0Tri == <<V(0, 0, 0, Red), V(0, 20, 4, Red), V(-20, 0, 4, Red)>>

\* inside the target, all vertices in [0, width) x [0, height)
InTri == <<V(4, -4, 8, Green), V(4, 8, 8, Green), V(-8, -4, 8, None)>>

\* corners (0, 0), (0, height), (width, 0) of the target
CornerTri == <<V(-8, 8, 8, Red), V(-8, -8, 8, Red), V(8, 8, 8, Red)>>

\* InTri with its third vertex left of the target
NegTri == <<V(4, -4, 8, Red), V(4, 8, 8, Red), V(-12, -4, 8, Red)>>

\* a vertex exactly on x = width
EdgeTri == <<V(8, -4, 8, Red), V(4, 8, 8, Red), V(-8, -4, 8, Red)>>

\* general slopes, clockwise
SlopeTri == <<V(-4, 4, 4, Blue), V(2, 2, 4, Blue), V(-1, -3, 4, Blue)>>

\* three collinear vertices
FlatTri == <<V(-4, 0, 4, Red), V(0, 0, 4, Red), V(2, 0, 4, Red)>>

Triangles ==
    {Full4, Full8, Full16, Mixed, NearTri, BehindTri, W0Tri, InTri, CornerTri,
     NegTri, EdgeTri, SlopeTri, FlatTri}

\* Model::vertices: one triangle, two triangles in both depth orders, and
\* lists with vertices left over
Models ==
    Triangles
    \cup {Full4 \o Full8, Full8 \o Full4, NearTri \o InTri, EdgeTri \o InTri,
          InTri \o <<Full4[1], Full4[2]>>, <<Full4[1]>>}

SolidBlue == [kind |-> "SolidColor", color |-> Blue]

VertexColors == [kind |-> "VertexColors", color |-> None]

\* Material
Materials == {SolidBlue, VertexColors}

\* DrawMode
Modes == [shaded : BOOLEAN, wireframe : BOOLEAN, points : BOOLEAN]

ShadedOnly == [shaded |-> TRUE, wireframe |-> FALSE, points |-> FALSE]

WireframeOnly == [shaded |-> FALSE, wireframe |-> TRUE, points |-> FALSE]

\* the (model, material) pairs of the frames of several draws
FrameDraws ==
    {<<Full4, VertexColors>>, <<Full8, VertexColors>>, <<Mixed, VertexColors>>,
     <<Full4 \o Full8, VertexColors>>, <<Full8 \o Full4, VertexColors>>,
     <<InTri, SolidBlue>>}

\* the models drawn with interleaving slice workers
WorkerModels == {Mixed, Full4 \o InTri, InTri \o <<Full4[1], Full4[2]>>}

----------------------------------------------------------------------------
(* SpecSlices: create_slices on every small target and worker count         *)

IdleRest ==
    /\ screen_vertices = << >>
    /\ progress = << >>
    /\ draw = None
    /\ before = None
    /\ writers = << >>
    /\ stepWrites = {}
    /\ frags = << >>
    /\ ndraws = 0
    /\ app = None
    /\ call = None
    /\ ret = None
    /\ files = None

IdleRestApp ==
    /\ screen_vertices = << >>
    /\ progress = << >>
    /\ draw = None
    /\ before = None
    /\ writers = << >>
    /\ stepWrites = {}
    /\ frags = << >>
    /\ ndraws = 0
    /\ call = None
    /\ ret = None

InitSlices ==
    /\ \E w \in 0..MaxW, h \in 0..MaxH : target = RenderTarget_new(w, h)
    /\ num_threads \in 1..MaxThreads
    /\ slices = << >>
    /\ pc = "idle"
    /\ lastOp = "new"
    /\ IdleRest

CreateSlices ==
    /\ pc = "idle"
    /\ slices' = create_slices(target, num_threads)
    /\ pc' = "sliced"
    /\ lastOp' = "create_slices"
    /\ UNCHANGED <<target, num_threads, screen_vertices, progress, draw,
                   before, writers, stepWrites, frags, ndraws, app,
                   call, ret, files>>

NextSlices == CreateSlices

SpecSlices == InitSlices /\ [][NextSlices]_vars

\* The rows a slice owns
SliceRows(s) == {y \in 0..(target.height - 1) : s.start <= y /\ y < s.end}

(* C1: the row ranges of the slices returned by create_slices are non-empty,
   ascending, pairwise disjoint and cover exactly [0, H); each slice's color
   and depth sub-buffers have length (end - start) * W and begin at global
   index start * W of the parent buffer. *)
C1_SlicesPartitionRows ==
    (pc = "sliced" /\ slices # Panic) =>
        LET n == Len(slices) IN
        /\ \A i \in 1..n :
              /\ 0 <= slices[i].start
              /\ slices[i].start < slices[i].end
              /\ slices[i].end <= target.height
              /\ Len(slices[i].color_slice)
                   = (slices[i].end - slices[i].start) * target.width
              /\ Len(slices[i].depth_slice)
                   = (slices[i].end - slices[i].start) * target.width
              /\ slices[i].base = slices[i].start * target.width
              /\ slices[i].width = target.width
        /\ \A i \in 1..n, j \in 1..n : i < j => slices[i].end <= slices[j].start
        /\ \A y \in 0..(target.height - 1) :
              Cardinality({i \in 1..n : y \in SliceRows(slices[i])}) = 1
        /\ n <= num_threads

\* a height that is no multiple of the row share: the last slice is shorter
\* and the loop breaks before num_threads slices
C1_Witness ==
    /\ pc = "sliced"
    /\ slices # Panic
    /\ Len(slices) >= 2
    /\ Len(slices) < num_threads
    /\ slices[Len(slices)].end - slices[Len(slices)].start
         < slices[1].end - slices[1].start
    /\ target.width > 0

----------------------------------------------------------------------------
(* Spec: a frame of one draw_buffer call whose slice workers interleave      *)

Screen(t) == <<t.width, t.height>>

NoWriters(t) == [p \in 1..Len(t.color) |-> {}]

NoFrags(t) == [p \in 1..Len(t.color) |-> {}]

Init ==
    /\ target = RenderTarget_new(Width, Height)
    /\ num_threads \in 1..MaxThreads
    /\ slices = << >>
    /\ pc = "idle"
    /\ lastOp = "new"
    /\ screen_vertices = << >>
    /\ progress = << >>
    /\ draw = None
    /\ before = None
    /\ writers = << >>
    /\ stepWrites = {}
    /\ frags = NoFrags(target)
    /\ ndraws = 0
    /\ app = None
    /\ call = None
    /\ ret = None
    /\ files = None

\* RenderTarget::clear at the start of a frame
Clear ==
    /\ pc = "idle"
    /\ target' = clear(target)
    /\ lastOp' = "clear"
    /\ before' = [dirty |-> target # clear(target)]
    /\ draw' = None
    /\ writers' = << >>
    /\ stepWrites' = {}
    /\ frags' = NoFrags(target)
    /\ ndraws' = 0
    /\ screen_vertices' = << >>
    /\ UNCHANGED <<num_threads, slices, pc, progress, app,
                   call, ret, files>>

\* draw_buffer up to the parallel loop: the transform phase and create_slices
DrawBegin(model, material, mode, camera) ==
    /\ pc = "idle"
    /\ ndraws = 0
    /\ screen_vertices' = transform_phase(model.vertices,
                                          get_perspective_matrix(camera),
                                          Screen(target), 1)
    /\ slices' = create_slices(target, num_threads)
    /\ progress' = [i \in 1..Len(slices') |-> 0]
    /\ pc' = "raster"
    /\ draw' = [model |-> model, material |-> material, mode |-> mode,
                camera |-> camera]
    /\ before' = target
    /\ writers' = NoWriters(target)
    /\ stepWrites' = {}
    /\ lastOp' = "transform"
    /\ ndraws' = ndraws + 1
    /\ UNCHANGED <<target, num_threads, frags, app,
                   call, ret, files>>

\* slice worker i handles its next triangle (one pass of the for loop in the
\* closure given to par_iter_mut().for_each)
WorkerStep(i) ==
    /\ pc = "raster"
    /\ i \in 1..Len(slices)
    /\ progress[i] < Len(chunks_exact(screen_vertices))
    /\ \E acc \in {draw_chunk(NewAcc(slices[i]),
                              chunks_exact(screen_vertices)[progress[i] + 1],
                              draw.material, draw.mode, Screen(target))} :
           /\ slices' = [slices EXCEPT ![i] = acc.slice]
           /\ stepWrites' = {[w |-> i, x |-> q.x, y |-> q.y, idx |-> q.idx] :
                               q \in acc.writes}
           /\ writers' = [p \in 1..Len(target.color) |->
                            IF \E q \in acc.writes : slices[i].base + q.idx + 1 = p
                            THEN writers[p] \cup {i} ELSE writers[p]]
    /\ progress' = [progress EXCEPT ![i] = @ + 1]
    /\ lastOp' = "worker"
    /\ UNCHANGED <<target, num_threads, pc, screen_vertices, draw, before,
                   frags, ndraws, app,
                   call, ret, files>>

\* the parallel loop has joined: draw_buffer returns and the slices' borrows
\* of the target end
DrawEnd ==
    /\ pc = "raster"
    /\ \A i \in 1..Len(slices) : progress[i] = Len(chunks_exact(screen_vertices))
    /\ target' = join(target, slices)
    /\ slices' = << >>
    /\ progress' = << >>
    /\ pc' = "idle"
    /\ lastOp' = "draw_buffer"
    /\ stepWrites' = {}
    /\ UNCHANGED <<num_threads, screen_vertices, draw, before, writers, frags,
                   ndraws, app,
                   call, ret, files>>

Next ==
    \/ Clear
    \/ \E model \in WorkerModels, material \in Materials, mode \in Modes,
          camera \in Cameras :
         DrawBegin([vertices |-> model], material, mode, camera)
    \/ \E i \in 1..MaxThreads : WorkerStep(i)
    \/ DrawEnd

Spec == Init /\ [][Next]_vars

\* a worker's write: the pixel it stands for lies in the worker's slice and
\* its local index is the pixel's place in the slice
WriteInOwnSlice(q) ==
    LET s == slices[q.w] IN
    /\ s.start <= q.y /\ q.y < s.end
    /\ 0 <= q.x /\ q.x < s.width
    /\ q.idx = (q.y - s.start) * s.width + q.x
    /\ 0 <= q.idx /\ q.idx < Len(s.color_slice)
    /\ q.idx < Len(s.depth_slice)

(* C2: during the parallel phase of draw_buffer, under every interleaving
   of the slice workers, each write of a worker (from draw_triangle,
   draw_line or draw_point) lands at a local index inside its own slice that
   stands for a pixel (x, y) with start <= y < end and 0 <= x < width; hence
   no global pixel is written by two different workers. *)
C2_WritesStayInOwnSlice ==
    (pc = "raster") =>
        /\ \A q \in stepWrites : WriteInOwnSlice(q)
        /\ \A p \in 1..Len(target.color) : Cardinality(writers[p]) <= 1

\* several workers have written, one of them from draw_point next to the
\* right edge of the target, while another still has a triangle to do
C2_Witness ==
    /\ pc = "raster"
    /\ Len(slices) >= 2
    /\ draw.mode.points
    /\ \E q \in stepWrites : q.x = target.width - 1
    /\ Cardinality(UNION {writers[p] : p \in 1..Len(target.color)}) >= 2
    /\ \E i \in 1..Len(slices) :
          progress[i] < Len(chunks_exact(screen_vertices))

----------------------------------------------------------------------------
(* SpecDraw: a frame of one draw_buffer call, every model, material, mode    *)

\* draw_buffer as one step
DrawBuffer(model, material, mode, camera) ==
    /\ pc = "idle"
    /\ \E r \in {draw_buffer(target, num_threads, model, material, mode,
                             camera)} :
          /\ target' = r.target
          /\ screen_vertices' = r.screen_vertices
          /\ frags' = [p \in 1..Len(target.color) |->
                         frags[p] \cup {<<f.depth, f.color>> :
                                          f \in {g \in r.frags : g.p = p}}]
    /\ draw' = [model |-> model, material |-> material, mode |-> mode,
                camera |-> camera]
    /\ before' = target
    /\ lastOp' = "draw_buffer"
    /\ ndraws' = ndraws + 1
    /\ UNCHANGED <<num_threads, slices, pc, progress, writers, stepWrites,
                   app,
                   call, ret, files>>

\* only draw_triangle reads the material
NextDraw ==
    \/ Clear
    \/ \E model \in Models, mode \in Modes, camera \in Cameras :
         \E material \in IF mode.shaded THEN Materials ELSE {SolidBlue} :
            /\ ndraws = 0
            /\ DrawBuffer([vertices |-> model], material, mode, camera)

SpecDraw == Init /\ [][NextDraw]_vars

----------------------------------------------------------------------------
(* SpecFrame: frames of up to MaxDraws shaded draw_buffer calls              *)

NextFrame ==
    \/ Clear
    \/ \E d \in FrameDraws, camera \in Cameras :
          /\ ndraws < MaxDraws
          /\ DrawBuffer([vertices |-> d[1]], d[2], ShadedOnly, camera)

SpecFrame == Init /\ [][NextFrame]_vars

(* C3: after clear(), when two triangles with different depths both cover
   a pixel, in either draw order and whether they come in one draw_buffer
   call or in two, the pixel's final color is that of the triangle with the
   smaller depth and its stored depth is that smaller depth (shaded mode
   only).  Stated for every pixel and all the fragments offered to it since
   the clear: the stored depth is their least depth, and the color is that of
   the least fragment when it is the only one of that depth. *)
C3_NearestFragmentWins ==
    \A p \in 1..Len(target.color) :
        (frags[p] # {} /\ \A f \in frags[p] : ~IsNaN(f[1])) =>
            LET least == CHOOSE f \in frags[p] :
                            \A g \in frags[p] : RLe(f[1], g[1])
            IN  /\ target.depth[p] = least[1]
                /\ (\A g \in frags[p] : g[1] = least[1] => g = least)
                      => target.color[p] = least[2]

\* the farther of two triangles was drawn last, by a second draw_buffer call,
\* over a pixel the nearer one had colored
C3_Witness ==
    /\ lastOp = "draw_buffer"
    /\ ndraws = 2
    /\ draw.model.vertices = Full8
    /\ \E p \in 1..Len(target.color) :
          \E f \in frags[p], g \in frags[p] :
             /\ RLt(f[1], g[1])
             /\ f[2] # g[2]
             /\ g[2] = as_u32(Green)
             /\ target.color[p] = f[2]
             /\ before.color[p] = f[2]

(* C4: after RenderTarget::clear(), whatever the earlier draws left in the
   buffers, every depth entry equals f32::MAX and every color entry equals
   clear_color; width, height, clear_color and the buffer lengths are
   unchanged, and a second clear() changes nothing. *)
C4_ClearResetsTarget ==
    [][lastOp' = "clear" =>
          /\ \A i \in 1..Len(target'.depth) : target'.depth[i] = F32_MAX
          /\ \A i \in 1..Len(target'.color) :
                target'.color[i] = target'.clear_color
          /\ target'.width = target.width
          /\ target'.height = target.height
          /\ target'.clear_color = target.clear_color
          /\ Len(target'.color) = Len(target.color)
          /\ Len(target'.depth) = Len(target.depth)
          /\ clear(target') = target']_vars

\* clear() has run on a target whose buffers a draw had changed
C4_Witness ==
    /\ lastOp = "clear"
    /\ before = [dirty |-> TRUE]
    /\ target = RenderTarget_new(Width, Height)

\* the draw_buffer call that just returned was given exactly one triangle
OneTriangleDrawn == lastOp = "draw_buffer" /\ Len(draw.model.vertices) = 3

(* C5: near-plane rejection: if at least one of a triangle's three vertices
   has view-space depth less than the camera's near distance, the draw
   leaves the color and depth buffers unchanged, in every mode. *)
C5_NearVertexDrawsNothing ==
    (/\ OneTriangleDrawn
     /\ \E k \in 1..3 :
           RLt(ViewDepth(draw.model.vertices[k]), draw.camera.near))
        => (target.color = before.color /\ target.depth = before.depth)

(* C6: far-plane rejection: a triangle all of whose vertices lie beyond the
   camera's far distance makes draw_buffer write zero pixels to the color
   buffer. *)
C6_BeyondFarDrawsNothing ==
    (/\ OneTriangleDrawn
     /\ \A k \in 1..3 :
           RLt(draw.camera.far, ViewDepth(draw.model.vertices[k])))
        => target.color = before.color

\* the screen-space position the transform phase gives vertex k of the model
ScreenPos(k) ==
    ndc_to_screen(clip_to_ndc(world_to_clip(draw.model.vertices[k],
                      get_perspective_matrix(draw.camera))),
                  Screen(target)).position

(* C7 as stated: a triangle is dropped entirely (no shaded, wireframe or
   point pixels) if and only if at least one of its screen-space vertices has
   x outside [0, width] or y outside [0, height]; a negative x or y drops
   it, x = width or y = height does not. *)
C7_DroppedIffOutsideClosedRect ==
    OneTriangleDrawn =>
        LET outside == \E k \in 1..3 :
                          \/ RLt(ScreenPos(k)[1], R(0))
                          \/ RLt(R(target.width), ScreenPos(k)[1])
                          \/ RLt(ScreenPos(k)[2], R(0))
                          \/ RLt(R(target.height), ScreenPos(k)[2])
        IN  /\ outside => (screen_vertices = << >> /\ target = before)
            /\ ~outside => Len(screen_vertices) = 3

(* C7 amended: a triangle is dropped entirely if and only if at least one
   of its screen-space vertices has x >= width or y >= height; negative
   coordinates do not drop it, x = width or y = height does. *)
C7_DroppedIffBeyondRightOrBottom ==
    OneTriangleDrawn =>
        LET beyond == \E k \in 1..3 :
                         \/ RLe(R(target.width), ScreenPos(k)[1])
                         \/ RLe(R(target.height), ScreenPos(k)[2])
        IN  /\ beyond => (screen_vertices = << >> /\ target = before)
            /\ ~beyond => Len(screen_vertices) = 3

\* a triangle with a vertex left of the target was kept and colored pixels
C7_Witness ==
    /\ OneTriangleDrawn
    /\ \E k \in 1..3 : RLt(ScreenPos(k)[1], R(0))
    /\ \A k \in 1..3 : RLt(ScreenPos(k)[1], R(target.width))
    /\ Len(screen_vertices) = 3
    /\ target.color # before.color

\* Bresenham's segment from (x0, y0) to (x1, y1): one pixel for every step
\* along the longer axis, the other coordinate rounded to the nearest line
\* (half a step rounds away from the start)
BresenhamPixels(x0, y0, x1, y1) ==
    LET adx == Abs(x1 - x0)
        ady == Abs(y1 - y0)
        sx  == IF x0 < x1 THEN 1 ELSE -1
        sy  == IF y0 < y1 THEN 1 ELSE -1
    IN  IF adx = 0 /\ ady = 0 THEN {<<x0, y0>>}
        ELSE IF adx >= ady
        THEN {<<x0 + sx * i, y0 + sy * ((2 * ady * i + adx) \div (2 * adx))>> :
                i \in 0..adx}
        ELSE {<<x0 + sx * ((2 * adx * j + ady) \div (2 * ady)), y0 + sy * j>> :
                j \in 0..ady}

\* the three segments joining the truncated screen positions of a triangle
TriangleEdgePixels(t) ==
    UNION {BresenhamPixels(AsI32(t[e[1]].position[1]), AsI32(t[e[1]].position[2]),
                           AsI32(t[e[2]].position[1]), AsI32(t[e[2]].position[2])) :
             e \in {<<1, 2>>, <<2, 3>>, <<3, 1>>}}

KeptEdgePixels ==
    UNION {TriangleEdgePixels(chunks_exact(screen_vertices)[k]) :
             k \in 1..Len(chunks_exact(screen_vertices))}

TargetRect == (0..(target.width - 1)) \X (0..(target.height - 1))

(* C8: with shaded = false, wireframe = true, points = false on a cleared
   target, the non-background pixels after draw_buffer are exactly the
   union, over the kept triangles, of the Bresenham pixel sets of the three
   segments joining the truncated screen positions of the vertices,
   intersected with the target rectangle; nothing else changes, for every
   slice count. *)
C8_WireframeIsBresenham ==
    (/\ lastOp = "draw_buffer"
     /\ draw.mode = WireframeOnly
     /\ before = clear(before))
        => /\ {q \in TargetRect :
                 target.color[q[2] * target.width + q[1] + 1]
                    # target.clear_color}
                = KeptEdgePixels \cap TargetRect
           /\ \A q \in KeptEdgePixels \cap TargetRect :
                 target.color[q[2] * target.width + q[1] + 1] = as_u32(White)
           /\ target.depth = before.depth

\* a wireframe draw over several slices whose segments leave the target on
\* the left
C8_Witness ==
    /\ lastOp = "draw_buffer"
    /\ draw.mode = WireframeOnly
    /\ Len(create_slices(target, num_threads)) >= 2
    /\ \E q \in KeptEdgePixels : q[1] < 0
    /\ Cardinality(KeptEdgePixels \cap TargetRect) >= target.width
    /\ target.color # before.color

----------------------------------------------------------------------------
(* SpecApp: the window-event handler of AppContext (lib.rs) with MyApp as    *)
(* its user state (my_app.rs).  A render target here records its size and   *)
(* whether a draw has written to it since new / clear; cameras record their *)
(* aspect ratio.                                                            *)

\* the character keys of the model: "2" and "4" ask for a rendering mode
Keys == {"2", "4"}

\* Camera::default and MyApp::default's cam: aspect_ratio 16 / 9
Camera_default == [aspect_ratio |-> <<16, 9>>]

\* RenderTarget::new of lib.rs
AppTarget_new(width, height) ==
    [width |-> width, height |-> height, drawn |-> FALSE]

\* AppContext::new with MyApp::default, and the history of the model:
\* the last event, the calls its handler made, whether the last Resized had a
\* zero side, the size of the last other Resized, and the camera aspect
\* ratio the last frame's draw_buffer calls were given
AppContext_new ==
    [window         |-> FALSE,
     exiting        |-> FALSE,
     render_target  |-> None,
     scene          |-> None,
     commands       |-> << >>,
     pressed_keys   |-> {},
     draw_tris      |-> TRUE,
     draw_wireframe |-> TRUE,
     draw_points    |-> FALSE,
     cam            |-> Camera_default,
     models         |-> 0,
     last_event     |-> "new",
     calls          |-> << >>,
     zeroed         |-> FALSE,
     resized        |-> None,
     drawn_aspect   |-> None]

\* the application started with every asset file in place
InitApp ==
    /\ app = AppContext_new
    /\ files = None
    /\ target = RenderTarget_new(0, 0)
    /\ num_threads = 1
    /\ slices = << >>
    /\ pc = "idle"
    /\ lastOp = "new"
    /\ IdleRestApp

RestApp ==
    UNCHANGED <<target, num_threads, slices, pc, screen_vertices, progress,
                draw, before, writers, stepWrites, frags, lastOp, ndraws,
                call, ret, files>>

\* ApplicationHandler::resumed: the window and surface are created and MyApp
\* handles Resume by loading its three models
resumed ==
    /\ ~app.window
    /\ app' = [app EXCEPT !.window = TRUE,
                          !.models = @ + 3,
                          !.last_event = "resumed",
                          !.calls = << >>]
    /\ RestApp

size_is_zero_both(width, height) == width = 0 /\ height = 0

\* `size.width == 0 || size.height == 0`
size_is_zero(width, height) == width = 0 \/ height = 0

\* the loop over command.commands at the head of window_event, then
\* commands.clear(): the last SetRenderingMode stays in force
drain_commands(a) ==
    IF a.commands = << >> THEN a
    ELSE LET c == a.commands[Len(a.commands)] IN
         [a EXCEPT !.draw_tris = c.tris,
                   !.draw_wireframe = c.wireframe,
                   !.draw_points = c.points,
                   !.commands = << >>]

\* window_event can run: the window exists, the event loop has not exited
\* and no handler has panicked
Running == app.window /\ ~app.exiting /\ pc # "panicked"

\* WindowEvent::Resized(size)
Resized(width, height) ==
    /\ Running
    /\ LET a == drain_commands(app) IN
       app' = IF size_is_zero(width, height)
              THEN [a EXCEPT !.render_target = None,
                             !.last_event = "Resized",
                             !.calls = << >>,
                             !.zeroed = (width = 0 \/ height = 0),
                             !.resized = IF width = 0 \/ height = 0
                                         THEN None ELSE <<width, height>>]
              ELSE [a EXCEPT !.render_target = AppTarget_new(width, height),
                             !.scene = IF a.scene = None THEN None
                                       ELSE [a.scene EXCEPT
                                               !.camera.aspect_ratio =
                                                  RDiv(R(width), R(height))],
                             !.last_event = "Resized",
                             !.calls = << >>,
                             !.zeroed = (width = 0 \/ height = 0),
                             !.resized = IF width = 0 \/ height = 0
                                         THEN None ELSE <<width, height>>]
    /\ RestApp

\* WindowEvent::CloseRequested
CloseRequested ==
    /\ Running
    /\ app' = [drain_commands(app) EXCEPT !.exiting = TRUE,
                                          !.last_event = "CloseRequested",
                                          !.calls = << >>]
    /\ RestApp

\* WindowEvent::KeyboardInput with a character key, pressed or released
KeyboardInput(key, pressed) ==
    /\ Running
    /\ app' = [drain_commands(app) EXCEPT
                 !.pressed_keys = IF pressed THEN @ \cup {key} ELSE @ \ {key},
                 !.last_event = "KeyboardInput",
                 !.calls = << >>]
    /\ RestApp

\* MyApp::handle_event(Update): the rendering-mode commands of the pressed
\* keys, in the order of the handler's tests
update_commands(pressed_keys) ==
    (IF "2" \in pressed_keys
     THEN <<[tris |-> FALSE, wireframe |-> TRUE, points |-> FALSE]>>
     ELSE << >>)
    \o (IF "4" \in pressed_keys
        THEN <<[tris |-> TRUE, wireframe |-> FALSE, points |-> FALSE]>>
        ELSE << >>)

\* MyApp::handle_event(Render): with no entities yet, MyApp takes the scene's
\* camera and makes an entity of each of its first three models; otherwise
\* it writes its own camera over the scene's
handle_render(a) ==
    IF a.scene.entities = 0
    THEN [a EXCEPT !.cam = a.scene.camera,
                   !.scene.entities = Min(a.models, 3)]
    ELSE [a EXCEPT !.scene.camera = a.cam]

redraw_frame_draw_first(a) ==
    IF a.scene = None
    THEN [a EXCEPT !.render_target.drawn = FALSE,
                   !.scene = [entities |-> 0, camera |-> Camera_default],
                   !.calls = @ \o <<"clear", "present">>,
                   !.drawn_aspect = None]
    ELSE LET r == handle_render(a) IN
         IF r.scene.entities = 0
         THEN [r EXCEPT !.render_target.drawn = FALSE,
                        !.calls = @ \o <<"clear", "Render", "present">>,
                        !.drawn_aspect = None]
         ELSE [r EXCEPT !.render_target.drawn = FALSE,
                        !.calls = @ \o <<"Render", "draw_buffer", "clear",
                                         "present">>,
                        !.drawn_aspect = r.scene.camera.aspect_ratio]

\* the RedrawRequested arm from `if let Some(target)` on, for a context whose
\* render target exists
redraw_frame(a) ==
    IF a.scene = None
    THEN [a EXCEPT !.render_target.drawn = FALSE,
                   !.scene = [entities |-> 0, camera |-> Camera_default],
                   !.calls = @ \o <<"clear", "present">>,
                   !.drawn_aspect = None]
    ELSE LET r == handle_render(a) IN
         IF r.scene.entities = 0
         THEN [r EXCEPT !.render_target.drawn = FALSE,
                        !.calls = @ \o <<"clear", "Render", "present">>,
                        !.drawn_aspect = None]
         ELSE [r EXCEPT !.render_target.drawn = TRUE,
                        !.calls = @ \o <<"clear", "Render", "draw_buffer",
                                         "present">>,
                        !.drawn_aspect = r.scene.camera.aspect_ratio]

\* WindowEvent::RedrawRequested
RedrawRequested ==
    /\ Running
    /\ LET a == drain_commands(app)
           u == [a EXCEPT !.commands = update_commands(a.pressed_keys),
                          !.last_event = "RedrawRequested",
                          !.calls = <<"Update">>,
                          !.drawn_aspect = None]
       IN  app' = IF u.render_target = None THEN u ELSE redraw_frame(u)
    /\ RestApp

NextApp ==
    \/ resumed
    \/ \E width \in 0..MaxSize, height \in 0..MaxSize : Resized(width, height)
    \/ CloseRequested
    \/ \E key \in Keys, pressed \in BOOLEAN : KeyboardInput(key, pressed)
    \/ RedrawRequested

SpecApp == InitApp /\ [][NextApp]_vars

RenderingCalls == {"clear", "Render", "draw_buffer", "present"}

(* C9: after a Resized event with width = 0 or height = 0, render_target
   is None, and as long as no Resized event with both dimensions nonzero
   arrives, no clear, no draw_buffer call and no buffer present occurs on
   RedrawRequested; rendering resumes only after a nonzero Resized. *)
C9_NoRenderingWhileZeroSized ==
    app.zeroed =>
        /\ app.render_target = None
        /\ \A k \in 1..Len(app.calls) : app.calls[k] \notin RenderingCalls

\* a redraw is asked for after a resize to zero area took away the target of
\* a scene that has entities to draw
C9_Witness ==
    /\ app.zeroed
    /\ app.last_event = "RedrawRequested"
    /\ app.calls = <<"Update">>
    /\ app.scene # None
    /\ app.scene.entities > 0

(* C10: after any Resized(w, h) with w > 0 and h > 0 the render target is a
   freshly created one of size w x h, and when the next frame's triangles
   are drawn the scene camera's aspect_ratio equals w / h, for every event
   order. *)
C10_ResizeContract ==
    app.resized # None =>
        /\ app.last_event = "Resized"
              => app.render_target = AppTarget_new(app.resized[1], app.resized[2])
        /\ app.render_target # None
        /\ app.render_target.width = app.resized[1]
        /\ app.render_target.height = app.resized[2]
        /\ app.drawn_aspect # None
              => app.drawn_aspect = RDiv(R(app.resized[1]), R(app.resized[2]))

----------------------------------------------------------------------------
(* SpecTarget: RenderTarget::new for small and for overflowing sizes, then
   clear(), create_slices() and shaded or wireframe draw_buffer calls        *)

\* sizes given to RenderTarget::new: the small ones and 2^16 x 2^16, which
\* does not fit in a u32.  RenderTarget::new leaves the target; where the
\* build checks overflow and the product does not fit it panics instead.
TargetSizes == ((0..MaxW) \X (0..MaxH)) \cup {<<U16, U16>>}

\* create_slices and draw_buffer are taken on the small targets
SmallTarget == pc = "idle" /\ target.width <= MaxW /\ target.height <= MaxH

TargetRest ==
    UNCHANGED <<num_threads, pc, screen_vertices, progress, draw, before,
                writers, stepWrites, frags, ndraws, app,
                   call, ret, files>>

InitTarget ==
    /\ \E size \in TargetSizes :
          \/ target = RenderTarget_new(size[1], size[2]) /\ pc = "idle"
          \/ /\ mul_overflows(size[1], size[2])
             /\ target = None
             /\ pc = "panicked"
    /\ num_threads \in 1..MaxThreads
    /\ slices = << >>
    /\ lastOp = "new"
    /\ IdleRest

TargetClear ==
    /\ pc = "idle"
    /\ target' = clear(target)
    /\ slices' = << >>
    /\ lastOp' = "clear"
    /\ TargetRest

\* the slices borrow the buffers and are dropped again
TargetSlices ==
    /\ SmallTarget
    /\ slices' = create_slices(target, num_threads)
    /\ target' = target
    /\ lastOp' = "create_slices"
    /\ TargetRest

TargetDraw(model, mode) ==
    /\ SmallTarget
    /\ \E camera \in Cameras :
         \E r \in {draw_buffer(target, num_threads, [vertices |-> model],
                               VertexColors, mode, camera)} :
            target' = r.target
    /\ slices' = << >>
    /\ lastOp' = "draw_buffer"
    /\ TargetRest

NextTarget ==
    \/ TargetClear
    \/ TargetSlices
    \/ \E model \in {Full4, Mixed}, mode \in {ShadedOnly, WireframeOnly} :
          TargetDraw(model, mode)

SpecTarget == InitTarget /\ [][NextTarget]_vars

(* C11: for every u32 width and height given to RenderTarget::new, and after
   any sequence of clear(), create_slices() and draw calls, the color and
   depth buffers have the same length and that length is the mathematical
   product width x height, also when the product does not fit in 32 bits.
   (The product is compared by division, so that it is never formed.) *)
C11_BufferLengthIsProduct ==
    pc = "idle" =>
        /\ Len(target.color) = Len(target.depth)
        /\ IF target.width = 0 THEN Len(target.color) = 0
           ELSE /\ Len(target.color) % target.width = 0
                /\ Len(target.color) \div target.width = target.height

----------------------------------------------------------------------------
(* SpecBary: triangle_barycentric and point_in_triangle on every triangle
   and point of a small grid of screen positions                             *)

GridPoints == (0..(2 * MaxCoord)) \X (0..(2 * MaxCoord))

\* the screen positions of the triangles' vertices: every second grid point
VertexPoints == {<<2 * x, 2 * y>> : x \in 0..MaxCoord, y \in 0..MaxCoord}

\* a vertex at screen position q
ScreenVertex(q) == Vertex_new(<<q[1], q[2], 1>>)

GridTriangle(a, b, c) == <<ScreenVertex(a), ScreenVertex(b), ScreenVertex(c)>>

CallRest ==
    /\ target = RenderTarget_new(0, 0)
    /\ num_threads = 1
    /\ slices = << >>
    /\ lastOp = "new"
    /\ screen_vertices = << >>
    /\ progress = << >>
    /\ draw = None
    /\ before = None
    /\ writers = << >>
    /\ stepWrites = {}
    /\ frags = << >>
    /\ ndraws = 0
    /\ app = None

CallUnchanged ==
    UNCHANGED <<target, num_threads, slices, screen_vertices, progress, draw,
                before, writers, stepWrites, frags, lastOp, ndraws, app,
                call, files>>

InitBary ==
    /\ \E a \in VertexPoints, b \in VertexPoints, c \in VertexPoints,
          p \in GridPoints :
          call = [triangle |-> GridTriangle(a, b, c),
                  p |-> <<R(p[1]), R(p[2])>>]
    /\ ret = None
    /\ files = None
    /\ pc = "call"
    /\ CallRest

CallTriangleBarycentric ==
    /\ pc = "call"
    /\ ret' = [fn |-> "triangle_barycentric",
               weights |-> triangle_barycentric(call.triangle, call.p)]
    /\ pc' = "returned"
    /\ CallUnchanged

CallPointInTriangle ==
    /\ pc = "call"
    /\ \E r \in {point_in_triangle(xy(call.triangle[1]), xy(call.triangle[2]),
                                   xy(call.triangle[3]), call.p)} :
          ret' = [fn |-> "point_in_triangle", inside |-> r.inside,
                  weights |-> r.weights]
    /\ pc' = "returned"
    /\ CallUnchanged

NextBary == CallTriangleBarycentric \/ CallPointInTriangle

SpecBary == InitBary /\ [][NextBary]_vars

\* (b - a) x (c - a) in screen coordinates
Cross2(a, b, c) ==
    RSub(RMul(RSub(b[1], a[1]), RSub(c[2], a[2])),
         RMul(RSub(b[2], a[2]), RSub(c[1], a[1])))

CallA == xy(call.triangle[1])

CallB == xy(call.triangle[2])

CallC == xy(call.triangle[3])

Returned(fn) == pc = "returned" /\ ret.fn = fn

(* C12: for every non-degenerate triangle (a, b, c), of either winding,
   triangle_barycentric at p = a, p = b and p = c returns the weights
   (1, 0, 0), (0, 1, 0) and (0, 0, 1). *)
C12_VerticesGiveUnitWeights ==
    (Returned("triangle_barycentric") /\ Cross2(CallA, CallB, CallC) # R(0))
    => /\ call.p = CallA => ret.weights = <<R(1), R(0), R(0)>>
       /\ call.p = CallB => ret.weights = <<R(0), R(1), R(0)>>
       /\ call.p = CallC => ret.weights = <<R(0), R(0), R(1)>>

\* p = b of a triangle whose cross product is negative
C12_Witness ==
    /\ Returned("triangle_barycentric")
    /\ RLt(Cross2(CallA, CallB, CallC), R(0))
    /\ call.p = CallB
    /\ ret.weights = <<R(0), R(1), R(0)>>

\* p lies strictly on the side of edge (a, b) on which c lies
SameSideStrict(a, b, c, p) ==
    \/ RLt(R(0), Cross2(a, b, c)) /\ RLt(R(0), Cross2(a, b, p))
    \/ RLt(Cross2(a, b, c), R(0)) /\ RLt(Cross2(a, b, p), R(0))

StrictlyInside(a, b, c, p) ==
    /\ SameSideStrict(a, b, c, p)
    /\ SameSideStrict(b, c, a, p)
    /\ SameSideStrict(c, a, b, p)

\* counter-clockwise as the triangle appears on the screen, whose y axis
\* points down: the cross product of the screen coordinates is negative
CounterClockwise(a, b, c) == RLt(Cross2(a, b, c), R(0))

(* C13: for every triangle with counter-clockwise winding (as it appears on
   the screen) and every point strictly inside it, the inside test (all
   three edge signed areas >= 0) reports true, and the three weights each
   lie in [0, 1] and sum to 1. *)
C13_InsidePointsAccepted ==
    (/\ Returned("point_in_triangle")
     /\ CounterClockwise(CallA, CallB, CallC)
     /\ StrictlyInside(CallA, CallB, CallC, call.p))
    => /\ ret.inside
       /\ \A i \in 1..3 : /\ ~IsNaN(ret.weights[i])
                          /\ RLe(R(0), ret.weights[i])
                          /\ RLe(ret.weights[i], R(1))
       /\ RAdd(RAdd(ret.weights[1], ret.weights[2]), ret.weights[3]) = R(1)

\* an accepted interior point with three different weights
C13_Witness ==
    /\ Returned("point_in_triangle")
    /\ CounterClockwise(CallA, CallB, CallC)
    /\ StrictlyInside(CallA, CallB, CallC, call.p)
    /\ ret.inside
    /\ ret.weights[1] # ret.weights[2]
    /\ ret.weights[2] # ret.weights[3]
    /\ ret.weights[1] # ret.weights[3]

(* C18: for a zero-area triangle (three collinear or coincident screen
   positions) the barycentric weight computation never divides by zero: the
   division by the total signed area is guarded and yields a defined
   sentinel rather than an infinite or NaN weight. *)
C18_DegenerateWeightsDefined ==
    (Returned("triangle_barycentric") /\ Cross2(CallA, CallB, CallC) = R(0))
    => \A i \in 1..3 : ret.weights[i] \notin {NaN, Inf, NegInf}

----------------------------------------------------------------------------
(* SpecFragment: the per-fragment functions of draw_triangle on their own:
   the `match material`, Texture::sample and the depth computation           *)

\* the texel at (x, y) of the images below; no two texels of an image agree
\* and none is white
TexelAt(x, y) == <<50 * x, 50 * y, 200, 255>>

\* Texture: an image of the given size
Image(width, height) ==
    [width  |-> width,
     height |-> height,
     pixels |-> [i \in 1..(width * height) |->
                   TexelAt((i - 1) % width, (i - 1) \div width)]]

Images == {Image(w, h) : w \in 0..MaxTex, h \in 0..MaxTex}

\* texture coordinates below 0, inside [0, 1], above 1, and NaN
UVComponents ==
    {<<-1, 2>>, R(0), <<1, 4>>, <<1, 2>>, <<3, 4>>, R(1), <<3, 2>>, NaN}

SampleCalls ==
    {[fn |-> "sample", texture |-> t, tex_coord |-> Vector2_new(u, v)] :
       t \in Images, u \in UVComponents, v \in UVComponents}

\* barycentric weights of a fragment: a vertex, interior points, an edge
\* point, and the weights of a zero-area triangle
FragmentWeights ==
    {<<R(1), R(0), R(0)>>, <<<<1, 2>>, <<1, 4>>, <<1, 4>>>>,
     <<<<1, 2>>, <<1, 2>>, R(0)>>, <<NaN, NaN, NaN>>}

Finite(weights) == ~IsNaN(weights[1])

\* a color with a channel above 1.0
Bright == Color_new(R(2), <<1, 2>>, R(0), R(1))

UnitZ == Vector3_new(R(0), R(0), R(1))

\* a light direction of length 3
LongZ == Vector3_new(R(0), R(0), R(3))

ShadeMaterials ==
    {SolidBlue, VertexColors,
     [kind |-> "SolidColor", color |-> Bright],
     [kind |-> "Textured", texture |-> Image(2, 2)],
     [kind |-> "Textured", texture |-> Image(0, 0)],
     [kind |-> "LitTexture", texture |-> Image(2, 2), light_dir |-> UnitZ],
     [kind |-> "LitTexture", texture |-> Image(2, 2), light_dir |-> LongZ],
     [kind |-> "LitSolid", color |-> Red, light_dir |-> UnitZ],
     [kind |-> "LitSolid", color |-> Red, light_dir |-> LongZ]}

VertexColorChoices == {None, Red, Green, Blue}

UVTriples ==
    {<<None, None, None>>,
     <<Vector2_new(R(0), R(1)), None, Vector2_new(R(1), R(0))>>,
     <<Vector2_new(R(0), R(1)), Vector2_new(R(1), R(1)),
       Vector2_new(R(1), R(0))>>}

NormalTriples ==
    {<<None, None, None>>,
     <<UnitZ, None, UnitZ>>,
     <<UnitZ, UnitZ, UnitZ>>,
     <<UnitZ, Vector3_new(R(0), R(0), R(-1)), UnitZ>>}

\* a screen triangle with the given attributes
AttrTriangle(colors, uvs, normals, zs) ==
    [k \in 1..3 |->
        [Vertex_new(<<k, k, 0>>) EXCEPT
            !.position = <<R(k), R(k), zs[k], R(1)>>,
            !.color = colors[k], !.uv = uvs[k], !.normal = normals[k]]]

ShadeCalls ==
    {[fn |-> "texture_color", material |-> m,
      triangle |-> AttrTriangle(<<c1, c2, c3>>, uvs, normals,
                                <<R(1), R(1), R(1)>>),
      weights |-> w] :
       m \in ShadeMaterials, c1 \in VertexColorChoices,
       c2 \in VertexColorChoices, c3 \in VertexColorChoices,
       uvs \in UVTriples, normals \in NormalTriples, w \in FragmentWeights}

\* screen-space z of a vertex: NDC z lies in [-1, 1] between the near and
\* the far plane; 0 and a value below 1e-6 in magnitude
ZValues == {R(0), <<1, 2000000>>, <<-1, 2>>, <<1, 3>>, R(1)}

DepthCalls ==
    {[fn |-> "fragment_depth",
      triangle |-> AttrTriangle(<<None, None, None>>, <<None, None, None>>,
                                <<None, None, None>>, <<z1, z2, z3>>),
      weights |-> w] :
       z1 \in ZValues, z2 \in ZValues, z3 \in ZValues, w \in FragmentWeights}

InitFragment ==
    /\ call \in SampleCalls \cup ShadeCalls \cup DepthCalls
    /\ ret = None
    /\ files = None
    /\ pc = "call"
    /\ CallRest

CallSample ==
    /\ pc = "call"
    /\ call.fn = "sample"
    /\ ret' = [fn |-> "sample",
               texel |-> sample_texel(call.texture, call.tex_coord),
               color |-> sample(call.texture, call.tex_coord)]
    /\ pc' = "returned"
    /\ CallUnchanged

CallTextureColor ==
    /\ pc = "call"
    /\ call.fn = "texture_color"
    /\ \E c \in {texture_color(call.material, call.triangle, call.weights)} :
          ret' = [fn |-> "texture_color", color |-> c, word |-> as_u32(c)]
    /\ pc' = "returned"
    /\ CallUnchanged

CallFragmentDepth ==
    /\ pc = "call"
    /\ call.fn = "fragment_depth"
    /\ ret' = [fn |-> "fragment_depth",
               depth |-> fragment_depth(call.triangle, call.weights)]
    /\ pc' = "returned"
    /\ CallUnchanged

NextFragment == CallSample \/ CallTextureColor \/ CallFragmentDepth

SpecFragment == InitFragment /\ [][NextFragment]_vars

\* sum over the three vertices of channel f of the vertex color times the
\* vertex's weight
WeightedChannel(f) ==
    RAdd(RMul(call.triangle[1].color[f], call.weights[1]),
         RAdd(RMul(call.triangle[2].color[f], call.weights[2]),
              RMul(call.triangle[3].color[f], call.weights[3])))

AllColored == \A k \in 1..3 : call.triangle[k].color # None

(* C14: with the VertexColors material, when all three vertices of the
   triangle carry a color the fragment color is the sum of the three vertex
   colors weighted by the barycentric weights, with alpha 1; when at least
   one vertex has no color the fragment color is opaque white (1, 1, 1, 1),
   whatever the other two vertices carry. *)
C14_VertexColorsShading ==
    (Returned("texture_color") /\ call.material.kind = "VertexColors")
    => /\ (AllColored /\ Finite(call.weights))
          => ret.color = Color_new(WeightedChannel("r"), WeightedChannel("g"),
                                   WeightedChannel("b"), R(1))
       /\ ~AllColored => ret.color = White

\* three different vertex colors mixed by an interior point's weights
C14_Witness ==
    /\ Returned("texture_color")
    /\ call.material.kind = "VertexColors"
    /\ call.triangle[1].color = Red
    /\ call.triangle[2].color = Green
    /\ call.triangle[3].color = Blue
    /\ ret.color = Color_new(<<1, 2>>, <<1, 4>>, <<1, 4>>, R(1))

(* C15: for both texture-based materials (Textured and LitTexture), when at
   least one vertex of the triangle has no UV, the base color used for the
   fragment is opaque white and no texel of the texture contributes to it
   (LitTexture then only applies the lighting factor to white). *)
C15_MissingUVGivesWhite ==
    (/\ Returned("texture_color")
     /\ call.material.kind \in {"Textured", "LitTexture"}
     /\ \E k \in 1..3 : call.triangle[k].uv = None)
    => ret.color =
          IF call.material.kind = "Textured" THEN White
          ELSE lit(White, call.triangle, call.weights,
                   call.material.light_dir)

\* the integer nearest to q >= 0, the larger one for a half
Nearest(q) ==
    CHOOSE k \in 0..(MaxTex + 1) :
        RLe(RSub(R(k), <<1, 2>>), q) /\ RLt(q, RAdd(R(k), <<1, 2>>))

Clamped(a) == RMax(R(0), RMin(R(1), a))

(* C16: Texture::sample never reads a texel outside the image: for every UV
   (components below 0 or above 1 included) and every image size the texel
   coordinates used for get_pixel satisfy 0 <= x < width and 0 <= y <
   height, with x = round(clamp(u, 0, 1) * (width - 1)) and
   y = round((1 - clamp(v, 0, 1)) * (height - 1)), and the color returned is
   that texel's; when the image has zero width or zero height sample
   returns None instead of reading. *)
C16_SampleStaysInImage ==
    Returned("sample") =>
        LET w == call.texture.width
            h == call.texture.height
            u == call.tex_coord.x
            v == call.tex_coord.y
        IN  /\ (w = 0 \/ h = 0) => (ret.texel = None /\ ret.color = None)
            /\ ret.texel # None
                  => /\ 0 <= ret.texel.x /\ ret.texel.x < w
                     /\ 0 <= ret.texel.y /\ ret.texel.y < h
            /\ (w > 0 /\ h > 0 /\ ~IsNaN(u) /\ ~IsNaN(v))
                  => /\ ret.texel # None
                     /\ ret.texel.x = Nearest(RMul(Clamped(u), R(w - 1)))
                     /\ ret.texel.y
                          = Nearest(RMul(RSub(R(1), Clamped(v)), R(h - 1)))
                     /\ ret.color
                          = Color_new(<<50 * ret.texel.x, 255>>,
                                      <<50 * ret.texel.y, 255>>,
                                      <<200, 255>>, <<255, 255>>)

\* a coordinate above 1 is clamped to the image's last column, and a
\* coordinate below 0, flipped, to its last row
C16_Witness ==
    /\ Returned("sample")
    /\ call.texture.width = MaxTex
    /\ call.texture.height = MaxTex
    /\ call.tex_coord = Vector2_new(<<3, 2>>, <<-1, 2>>)
    /\ ret.texel = [x |-> MaxTex - 1, y |-> MaxTex - 1]

\* floor(255 * c) of a channel
Byte(c) == (255 * c[1]) \div c[2]

(* C17: every value stored in the color buffer by a shaded fragment is a
   packed 0x00RRGGBB word: bits 24..31 are zero and the R, G and B bytes
   are floor(255 r), floor(255 g) and floor(255 b) of the shader's output
   color, no channel spilling into a neighbouring byte, for every material
   variant and every color a material can produce. *)
C17_PackedRGBWord ==
    (/\ Returned("texture_color")
     /\ ~IsNaN(ret.color.r) /\ ~IsNaN(ret.color.g) /\ ~IsNaN(ret.color.b))
    => /\ ret.word < 16777216
       /\ ret.word \div 65536 = Byte(ret.color.r)
       /\ (ret.word \div 256) % 256 = Byte(ret.color.g)
       /\ ret.word % 256 = Byte(ret.color.b)

\* 1 / z, or 0 for |z| <= 1e-6
Reciprocal(z) ==
    IF RLt(<<1, 1000000>>, RAbs(z)) THEN RDiv(R(1), z) ELSE R(0)

\* dot(weights, [1 / z0, 1 / z1, 1 / z2])
ReciprocalDot ==
    RAdd(RMul(call.weights[1], Reciprocal(call.triangle[1].position[3])),
         RAdd(RMul(call.weights[2], Reciprocal(call.triangle[2].position[3])),
              RMul(call.weights[3], Reciprocal(call.triangle[3].position[3]))))

(* C19: the fragment depth is 1 / dot(weights, [1/z0, 1/z1, 1/z2]) where a
   vertex with |z| <= 1e-6 contributes reciprocal 0; whenever the magnitude
   of that dot product is not above 1e-6 the depth is exactly 0; and this
   sentinel 0 is the nearest depth: no fragment depth is smaller than 0. *)
C19_DepthGuard ==
    (Returned("fragment_depth") /\ Finite(call.weights))
    => /\ ret.depth = Reciprocal(ReciprocalDot)
       /\ RLe(R(0), ret.depth)

----------------------------------------------------------------------------
(* SpecAssets: the window-event handler of SpecApp on a file system where
   each asset file MyApp names is in place, missing or unparsable            *)

\* the paths given to load_model by MyApp::handle_event(Resume), in order
ModelFiles == <<"assets/spyro.obj", "assets/floor.obj", "assets/Eevee.obj">>

\* the path given to load_gltf by MyApp::handle_event(Resume)
GltfFile == "assets/test.glb"

\* the paths given to Texture::new by MyApp::handle_event(Render)
SpyroTexture == "assets/SpyroTex.png"

EeveeTexture == "assets/EEVEEUV.png"

AssetFiles ==
    {ModelFiles[k] : k \in 1..Len(ModelFiles)}
        \cup {GltfFile, SpyroTexture, EeveeTexture}

\* what read_to_string / parse, image::open and gltf::import can find
FileStates == {"ok", "missing", "unparsable"}

\* load_model: read_to_string's Err is answered with panic!, and so is a
\* number that does not parse (`parse().unwrap()`)
load_model(fs, file) ==
    IF fs[file] = "ok" THEN [model |-> file] ELSE [panic |-> file]

\* load_gltf: `gltf::import(path).unwrap()`
load_gltf(fs, path) ==
    IF fs[path] = "ok" THEN [models |-> path] ELSE [panic |-> path]

\* Texture::new: Some(texture) when image::open succeeds, None otherwise
Texture_new(fs, path) ==
    IF fs[path] = "ok" THEN [texture |-> path] ELSE None

HasPanicked(result) == "panic" \in DOMAIN result

\* MyApp::handle_event(Resume): the models pushed before the handler returns
\* or panics
resume_models(fs) ==
    CHOOSE n \in 0..Len(ModelFiles) :
        /\ \A k \in 1..n : ~HasPanicked(load_model(fs, ModelFiles[k]))
        /\ n < Len(ModelFiles)
              => HasPanicked(load_model(fs, ModelFiles[n + 1]))

resume_panics(fs) ==
    \/ resume_models(fs) < Len(ModelFiles)
    \/ HasPanicked(load_gltf(fs, GltfFile))

\* MyApp::handle_event(Render) with no entities yet: the entities pushed
\* before the handler returns or `Texture::new(..).unwrap()` panics
render_entities(fs, models) ==
    IF models >= 1 /\ Texture_new(fs, SpyroTexture) = None THEN 0
    ELSE IF models >= 3 /\ Texture_new(fs, EeveeTexture) = None THEN 2
    ELSE Min(models, 3)

render_panics(fs, a) ==
    /\ a.scene.entities = 0
    /\ \/ a.models >= 1 /\ Texture_new(fs, SpyroTexture) = None
       \/ a.models >= 3 /\ Texture_new(fs, EeveeTexture) = None

InitAssets ==
    /\ app = AppContext_new
    /\ files \in [AssetFiles -> FileStates]
    /\ target = RenderTarget_new(0, 0)
    /\ num_threads = 1
    /\ slices = << >>
    /\ pc = "idle"
    /\ lastOp = "new"
    /\ IdleRestApp

RestAssets ==
    UNCHANGED <<target, num_threads, slices, screen_vertices, progress,
                draw, before, writers, stepWrites, frags, lastOp, ndraws,
                call, ret, files>>

\* ApplicationHandler::resumed on this file system
ResumedWithFiles ==
    /\ ~app.window
    /\ pc = "idle"
    /\ app' = [app EXCEPT !.window = TRUE,
                          !.models = @ + resume_models(files),
                          !.last_event = "resumed",
                          !.calls = << >>]
    /\ pc' = IF resume_panics(files) THEN "panicked" ELSE "idle"
    /\ RestAssets

\* WindowEvent::RedrawRequested on this file system
RedrawWithFiles ==
    /\ Running
    /\ LET a == drain_commands(app)
           u == [a EXCEPT !.commands = update_commands(a.pressed_keys),
                          !.last_event = "RedrawRequested",
                          !.calls = <<"Update">>,
                          !.drawn_aspect = None]
       IN  IF u.render_target # None /\ u.scene # None
              /\ render_panics(files, u)
           THEN /\ app' = [u EXCEPT
                             !.render_target.drawn = FALSE,
                             !.cam = u.scene.camera,
                             !.scene.entities =
                                 render_entities(files, u.models),
                             !.calls = @ \o <<"clear", "Render">>]
                /\ pc' = "panicked"
           ELSE /\ app' = IF u.render_target = None THEN u
                          ELSE redraw_frame(u)
                /\ pc' = pc
    /\ RestAssets

NextAssets ==
    \/ ResumedWithFiles
    \/ \E width \in 0..MaxSize, height \in 0..MaxSize : Resized(width, height)
    \/ CloseRequested
    \/ \E key \in Keys, pressed \in BOOLEAN : KeyboardInput(key, pressed)
    \/ RedrawWithFiles

SpecAssets == InitAssets /\ [][NextAssets]_vars

(* C20: asset failure is never fatal: when a referenced model or texture
   file is missing or unparsable, loading reports a failure value and the
   application keeps running (an absent texture is treated as no texture);
   no sequence of Resume / Render events with a missing asset reaches a
   panic state. *)
C20_AssetFailureNotFatal ==
    (\E f \in AssetFiles : files[f] # "ok") => pc # "panicked"

----------------------------------------------------------------------------
(* Frame ordering and the command queue of AppContext, under SpecApp        *)

\* the positions of a call in the calls of the last event's handler
CallsOf(name) == {k \in 1..Len(app.calls) : app.calls[k] = name}

\* every call named first was made before every call named second
AllBefore(first, second) ==
    \A i \in CallsOf(first), j \in CallsOf(second) : i < j

(* C21: in every RedrawRequested handling where a render target exists,
   clear() is executed exactly once and before any draw_buffer call of that
   frame, all draw_buffer calls precede the copy of the color buffer to the
   presentation surface, and the Update event is delivered to the user
   state before the Render event. *)
C21_FrameOrdering ==
    (app.last_event = "RedrawRequested" /\ app.render_target # None) =>
        /\ Cardinality(CallsOf("clear")) = 1
        /\ AllBefore("clear", "draw_buffer")
        /\ AllBefore("draw_buffer", "present")
        /\ Cardinality(CallsOf("Update")) = 1
        /\ AllBefore("Update", "Render")
        /\ AllBefore("Update", "clear")

\* a frame that delivered Render, drew the entities and presented
C21_Witness ==
    /\ app.last_event = "RedrawRequested"
    /\ app.render_target # None
    /\ CallsOf("Render") # {}
    /\ CallsOf("draw_buffer") # {}
    /\ CallsOf("present") # {}

----------------------------------------------------------------------------
(* SpecTies: frames of up to MaxDraws shaded draw_buffer calls whose
   triangles meet at equal depths                                            *)

\* Full4 with green vertices: the same depth at every pixel
Full4Green == [k \in 1..3 |-> [Full4[k] EXCEPT !.color = Green]]

\* the (model, material) pairs drawn: Full4 and Full4Green tie with each
\* other, Full8 and InTri tie on the far plane
TieDraws ==
    {<<Full4, VertexColors>>, <<Full4, SolidBlue>>,
     <<Full4 \o Full4Green, VertexColors>>,
     <<Full4Green \o Full4, VertexColors>>,
     <<Full8, VertexColors>>, <<InTri \o Full8, SolidBlue>>,
     <<Mixed, VertexColors>>}

NextTies ==
    \/ Clear
    \/ \E d \in TieDraws, camera \in Cameras :
          /\ ndraws < MaxDraws
          /\ DrawBuffer([vertices |-> d[1]], d[2], ShadedOnly, camera)

SpecTies == Init /\ [][NextTies]_vars

\* one slice over all the rows of the target the last call was given
WholeSlice == create_slices(before, 1)[1]

\* the fragment that triangle k of the last call's screen vertices brings to
\* the depth test of pixel (x, y), or None
OfferedFragment(k, x, y) ==
    LET triangle == chunks_exact(screen_vertices)[k]
        bounds   == Bounds_new(triangle, Screen(before))
    IN  IF x \in x_range(bounds) /\ y \in y_range(bounds)
        THEN draw_triangle_pixel(WholeSlice, triangle, draw.material, x, y)
        ELSE None

\* the triangles of the last call whose fragment at (x, y) has the depth the
\* pixel ends with
TiedAt(x, y) ==
    {k \in 1..Len(chunks_exact(screen_vertices)) :
        LET f == OfferedFragment(k, x, y)
        IN  f # None /\ f.depth = target.depth[y * target.width + x + 1]}

(* C22: when two triangles produce exactly the same depth at a pixel, the
   triangle drawn later (later in the screen-vertex list of one draw_buffer
   call, or in a later draw_buffer call) overwrites the earlier one, so the
   pixel's final color is that of the last-drawn triangle.  Stated for every
   pixel after every shaded draw_buffer call: of the call's triangles whose
   fragment has the depth the pixel ends with, the last in the list gives the
   pixel its color, whatever earlier calls left there. *)
C22_LastDrawnWinsTies ==
    lastOp = "draw_buffer" =>
        \A x \in 0..(target.width - 1), y \in 0..(target.height - 1) :
            LET ties == TiedAt(x, y)
                last == CHOOSE k \in ties : \A j \in ties : j <= k
            IN  ties # {} =>
                   target.color[y * target.width + x + 1]
                      = OfferedFragment(last, x, y).color

\* a pixel an earlier call left blue is given the same depth twice by the
\* next call, first in red and then in green, and ends green
C22_Witness ==
    /\ lastOp = "draw_buffer"
    /\ ndraws = 2
    /\ \E x \in 0..(target.width - 1), y \in 0..(target.height - 1) :
          LET p == y * target.width + x + 1 IN
          /\ before.depth[p] = target.depth[p]
          /\ before.color[p] = as_u32(Blue)
          /\ TiedAt(x, y) = {1, 2}
          /\ OfferedFragment(1, x, y).color = as_u32(Red)
          /\ OfferedFragment(2, x, y).color = as_u32(Green)
          /\ target.color[p] = as_u32(Green)

----------------------------------------------------------------------------
(* The transform phase's grouping of the vertices, under SpecDraw            *)

\* vertex k of the last call's model as the transform phase leaves it
TransformedVertex(k) ==
    update_normal(
        ndc_to_screen(clip_to_ndc(world_to_clip(draw.model.vertices[k],
                          get_perspective_matrix(draw.camera))),
                      Screen(target)))

\* input triangle k (vertices 3k - 2 .. 3k) after the transform
TransformedTriangle(k) ==
    <<TransformedVertex(3 * k - 2), TransformedVertex(3 * k - 1),
      TransformedVertex(3 * k)>>

OnScreenSide(v) ==
    /\ RLt(v.position[1], R(target.width))
    /\ RLt(v.position[2], R(target.height))

\* the input triangles that survive the visibility test
SurvivingTriangles ==
    {k \in 1..(Len(draw.model.vertices) \div 3) :
        \A i \in 1..3 : OnScreenSide(TransformedTriangle(k)[i])}

\* the j-th surviving input triangle
Surviving(j) ==
    CHOOSE k \in SurvivingTriangles :
        Cardinality({i \in SurvivingTriangles : i <= k}) = j

\* the chunks of 3 rasterized are the surviving input triangles, in order
RasterizedAreInputTriangles ==
    LET tris == chunks_exact(screen_vertices) IN
    /\ Len(tris) = Cardinality(SurvivingTriangles)
    /\ \A j \in 1..Len(tris) : tris[j] = TransformedTriangle(Surviving(j))

\* the 1 or 2 vertices after the last whole input triangle
TrailingVertices ==
    {k \in 1..Len(draw.model.vertices) :
        k > 3 * (Len(draw.model.vertices) \div 3)}

(* C23 as claimed: the screen-vertex list built by draw_buffer is the
   concatenation, in input order, of the surviving input triangles, each
   contributing exactly its 3 transformed vertices consecutively (and so
   holds nothing else); every chunk of 3 rasterized later consists of the
   three vertices of one input triangle. *)
C23_ScreenListIsSurvivingTriangles ==
    lastOp = "draw_buffer" =>
        /\ RasterizedAreInputTriangles
        /\ Len(screen_vertices) = 3 * Cardinality(SurvivingTriangles)

(* C23 amended: the screen-vertex list is the concatenation, in input order,
   of the surviving chunks of par_chunks(3): each surviving input triangle
   contributes exactly its 3 transformed vertices consecutively, and the
   trailing chunk of 1 or 2 input vertices, when all of them pass the
   visibility test, contributes them at the end of the list; every chunk of
   3 rasterized is one surviving input triangle, and the trailing vertices
   are in no rasterized chunk. *)
C23_GroupingPreserved ==
    lastOp = "draw_buffer" =>
        LET n    == 3 * Cardinality(SurvivingTriangles)
            rest == Len(screen_vertices) - n
        IN  /\ RasterizedAreInputTriangles
            /\ rest \in {0, Cardinality(TrailingVertices)}
            /\ rest > 0 <=> /\ TrailingVertices # {}
                            /\ \A k \in TrailingVertices :
                                  OnScreenSide(TransformedVertex(k))
            /\ \A i \in 1..rest :
                  screen_vertices[n + i]
                     = TransformedVertex(
                           3 * (Len(draw.model.vertices) \div 3) + i)

\* a triangle and two trailing vertices were drawn: five screen vertices,
\* one rasterized chunk
C23_Witness ==
    /\ lastOp = "draw_buffer"
    /\ Cardinality(TrailingVertices) = 2
    /\ Len(screen_vertices) = 5
    /\ Len(chunks_exact(screen_vertices)) = 1
    /\ SurvivingTriangles = {1}

----------------------------------------------------------------------------
(* SpecScan: one draw_triangle call on a fresh target, for the
   draw_triangle of renderer.rs (on one slice that holds every row) and for
   the draw_triangle of lib.rs                                               *)

\* the target of the calls: MaxCoord columns and one row more
ScanTarget == RenderTarget_new(MaxCoord, MaxCoord + 1)

\* screen positions of the vertices: from one pixel left of and above the
\* target to x = width + 1 and y = height
ScanPoints == (-1..(MaxCoord + 1)) \X (-1..(MaxCoord + 1))

\* draw_buffer of lib.rs gives draw_triangle only vertices it has not
\* skipped: 0 <= x <= width and 0 <= y <= height
lib_kept(triangle, t) ==
    \A k \in 1..3 :
        /\ ~RLt(R(t.width), triangle[k].position[1])
        /\ ~RLt(R(t.height), triangle[k].position[2])
        /\ ~RLt(triangle[k].position[1], R(0))
        /\ ~RLt(triangle[k].position[2], R(0))

\* draw_triangle of lib.rs on a cleared target: the pixels (x, y) of the
\* bounds that pass `idx < width * height` and the depth test, with the
\* index `y * width + x` they write
lib_draw_triangle(t, triangle) ==
    Let(Bounds_new(triangle, Screen(t)), LAMBDA bounds :
        {[x |-> q[1], y |-> q[2], idx |-> q[2] * t.width + q[1]] :
            q \in {r \in x_range(bounds) \X y_range(bounds) :
                     /\ point_in_triangle(xy(triangle[1]), xy(triangle[2]),
                                          xy(triangle[3]),
                                          <<R(r[1]), R(r[2])>>).inside
                     /\ r[2] * t.width + r[1] < t.width * t.height}})

InitScan ==
    /\ \E a \in ScanPoints, b \in ScanPoints, c \in ScanPoints :
          call = [triangle |-> GridTriangle(a, b, c)]
    /\ ret = None
    /\ files = None
    /\ pc = "call"
    /\ target = ScanTarget
    /\ num_threads = 1
    /\ slices = << >>
    /\ lastOp = "new"
    /\ screen_vertices = << >>
    /\ progress = << >>
    /\ draw = None
    /\ before = None
    /\ writers = << >>
    /\ stepWrites = {}
    /\ frags = << >>
    /\ ndraws = 0
    /\ app = None

\* draw_triangle of renderer.rs
CallDrawTriangle ==
    /\ pc = "call"
    /\ ret' = [fn |-> "renderer::draw_triangle",
               writes |-> draw_triangle(NewAcc(create_slices(target, 1)[1]),
                                        call.triangle, SolidBlue,
                                        Screen(target)).writes]
    /\ pc' = "returned"
    /\ CallUnchanged

\* draw_triangle of lib.rs, called by its draw_buffer
CallLibDrawTriangle ==
    /\ pc = "call"
    /\ lib_kept(call.triangle, target)
    /\ ret' = [fn |-> "lib::draw_triangle",
               writes |-> lib_draw_triangle(target, call.triangle)]
    /\ pc' = "returned"
    /\ CallUnchanged

NextScan == CallDrawTriangle \/ CallLibDrawTriangle

SpecScan == InitScan /\ [][NextScan]_vars

\* the least and the greatest of the triangle's three coordinates i
LeastCoord(i) ==
    RMin(RMin(call.triangle[1].position[i], call.triangle[2].position[i]),
         call.triangle[3].position[i])

GreatestCoord(i) ==
    RMax(RMax(call.triangle[1].position[i], call.triangle[2].position[i]),
         call.triangle[3].position[i])

(* C24: for every triangle and target size, each pixel (x, y) for which
   draw_triangle writes color / depth satisfies 0 <= x < width and
   0 <= y < height, lies inside the triangle's bounding box clamped to the
   target, and the write goes to buffer index y * width + x of that very
   pixel (a scanned x equal to width never wraps into column 0 of the next
   row). *)
C24_ScanStaysOnPixel ==
    pc = "returned" =>
        \A w \in ret.writes :
            /\ 0 <= w.x /\ w.x < target.width
            /\ 0 <= w.y /\ w.y < target.height
            /\ RLe(LeastCoord(1), R(w.x)) /\ RLe(R(w.x), GreatestCoord(1))
            /\ RLe(LeastCoord(2), R(w.y)) /\ RLe(R(w.y), GreatestCoord(2))
            /\ w.idx = w.y * target.width + w.x
            /\ w.idx < Len(target.color)

----------------------------------------------------------------------------
(* SpecLine: the loop of draw_line, one iteration a step, in i32 arithmetic:
   an operation whose result does not fit panics where the build checks
   overflow and wraps where it does not                                      *)

MaxI32 == 2147483647

MinI32 == -MaxI32 - 1

add_overflows(a, b) ==
    \/ a > 0 /\ b > 0 /\ a > MaxI32 - b
    \/ a < 0 /\ b < 0 /\ a < MinI32 - b

\* i32 addition, wrapping
wrapping_add(a, b) ==
    IF a > 0 /\ b > 0 /\ a > MaxI32 - b
    THEN (a + MinI32) + (b + MinI32)
    ELSE IF a < 0 /\ b < 0 /\ a < MinI32 - b
    THEN (a + MaxI32 + 1) + (b + MaxI32 + 1)
    ELSE a + b

neg_overflows(a) == a = MinI32

wrapping_neg(a) == IF a = MinI32 THEN MinI32 ELSE -a

sub_overflows(a, b) ==
    IF b = MinI32 THEN a >= 0 ELSE add_overflows(a, -b)

wrapping_sub(a, b) ==
    IF b = MinI32 THEN wrapping_add(wrapping_add(a, MaxI32), 1)
    ELSE wrapping_add(a, -b)

\* i32::abs
wrapping_abs(a) == IF a < 0 THEN wrapping_neg(a) ELSE a

\* i32::clamp(lo, hi)
clamp(v, lo, hi) == IF v < lo THEN lo ELSE IF v > hi THEN hi ELSE v

\* the endpoints the loop runs between: draw_line of lib.rs clamps them to
\* the target, draw_line of renderer.rs takes them as they are
line_endpoints(c, t) ==
    IF c.fn = "lib::draw_line"
    THEN [x0 |-> clamp(c.x0, 0, t.width - 1),
          y0 |-> clamp(c.y0, 0, t.height - 1),
          x1 |-> clamp(c.x1, 0, t.width - 1),
          y1 |-> clamp(c.y1, 0, t.height - 1)]
    ELSE [x0 |-> c.x0, y0 |-> c.y0, x1 |-> c.x1, y1 |-> c.y1]

\* the locals of draw_line before its loop: dx, dy, sx, sy, err, x, y; n
\* counts the iterations and hits holds the pixels written
line_locals(e) ==
    LET dx == wrapping_abs(wrapping_sub(e.x1, e.x0))
        dy == wrapping_neg(wrapping_abs(wrapping_sub(e.y1, e.y0)))
    IN  [x0 |-> e.x0, y0 |-> e.y0, x1 |-> e.x1, y1 |-> e.y1,
         dx |-> dx, dy |-> dy,
         sx |-> IF e.x0 < e.x1 THEN 1 ELSE -1,
         sy |-> IF e.y0 < e.y1 THEN 1 ELSE -1,
         err |-> wrapping_add(dx, dy),
         x |-> e.x0, y |-> e.y0, n |-> 0, hits |-> {}]

\* one of those operations does not fit in an i32
line_locals_overflow(e) ==
    \/ sub_overflows(e.x1, e.x0)
    \/ neg_overflows(wrapping_sub(e.x1, e.x0))
    \/ sub_overflows(e.y1, e.y0)
    \/ neg_overflows(wrapping_sub(e.y1, e.y0))
    \/ add_overflows(wrapping_abs(wrapping_sub(e.x1, e.x0)),
                     wrapping_neg(wrapping_abs(wrapping_sub(e.y1, e.y0))))

\* the loop's body after the `break` test
line_advance(l) ==
    LET e2    == wrapping_add(l.err, l.err)
        stepx == e2 >= l.dy
        err1  == IF stepx THEN wrapping_add(l.err, l.dy) ELSE l.err
        stepy == e2 <= l.dx
    IN  [l EXCEPT !.err = IF stepy THEN wrapping_add(err1, l.dx) ELSE err1,
                  !.x = IF stepx THEN wrapping_add(l.x, l.sx) ELSE l.x,
                  !.y = IF stepy THEN wrapping_add(l.y, l.sy) ELSE l.y]

line_advance_overflow(l) ==
    LET e2    == wrapping_add(l.err, l.err)
        stepx == e2 >= l.dy
        err1  == IF stepx THEN wrapping_add(l.err, l.dy) ELSE l.err
        stepy == e2 <= l.dx
    IN  \/ add_overflows(l.err, l.err)
        \/ stepx /\ (add_overflows(l.err, l.dy) \/ add_overflows(l.x, l.sx))
        \/ stepy /\ (add_overflows(err1, l.dx) \/ add_overflows(l.y, l.sy))

\* the iterations a run of the loop is followed for
MaxSteps == 2 * MaxCoord + 4

\* x0 of the calls: on and around the target, and the far left, where
\* `as i32` puts a screen position of -2^30 and one of -2^31 or beyond
LineStarts == (-1..(MaxCoord + 1)) \cup {MinI32 \div 2, MinI32}

LineCalls ==
    [fn : {"renderer::draw_line", "lib::draw_line"},
     x0 : LineStarts, y0 : -1..(MaxCoord + 1),
     x1 : -1..(MaxCoord + 1), y1 : -1..(MaxCoord + 1),
     overflow_checks : BOOLEAN]

InitLine ==
    /\ call \in LineCalls
    /\ ret = None
    /\ files = None
    /\ pc = "call"
    /\ target = ScanTarget
    /\ num_threads = 1
    /\ slices = << >>
    /\ lastOp = "new"
    /\ screen_vertices = << >>
    /\ progress = << >>
    /\ draw = None
    /\ before = None
    /\ writers = << >>
    /\ stepWrites = {}
    /\ frags = << >>
    /\ ndraws = 0
    /\ app = None

\* draw_line up to its loop
LineBegin ==
    /\ pc = "call"
    /\ \E e \in {line_endpoints(call, target)} :
          IF call.overflow_checks /\ line_locals_overflow(e)
          THEN pc' = "panicked" /\ ret' = ret
          ELSE pc' = "loop" /\ ret' = line_locals(e)
    /\ CallUnchanged

\* one iteration of the loop: the write, the `break` test, the advance
LineStep ==
    /\ pc = "loop"
    /\ ret.n < MaxSteps
    /\ LET s == create_slices(target, 1)[1]
           l == [ret EXCEPT
                   !.n = @ + 1,
                   !.hits = IF /\ line_pixel_in_slice(s, ret.x, ret.y)
                               /\ local_index(s, ret.x, ret.y)
                                     < Len(s.color_slice)
                            THEN @ \cup {<<ret.x, ret.y>>} ELSE @]
       IN  IF ret.x = ret.x1 /\ ret.y = ret.y1
           THEN pc' = "done" /\ ret' = l
           ELSE IF call.overflow_checks /\ line_advance_overflow(l)
           THEN pc' = "panicked" /\ ret' = l
           ELSE pc' = "loop" /\ ret' = line_advance(l)
    /\ CallUnchanged

NextLine == LineBegin \/ LineStep

SpecLine == InitLine /\ [][NextLine]_vars

Between(a, v, b) == (a <= v /\ v <= b) \/ (b <= v /\ v <= a)

(* C25: for every pair of integer endpoints (x0, y0), (x1, y1) the
   Bresenham loop of draw_line reaches x == x1 and y == y1 and exits after
   at most max(|x1 - x0|, |y1 - y0|) + 1 iterations, also when the endpoints
   lie outside the slice or the target.  Stated for every iteration: the
   loop does not panic, the point stays between the endpoints, every
   iteration that does not exit takes it one step along the longer axis, and
   the loop exits on (x1, y1), so after max(|x1 - x0|, |y1 - y0|) + 1
   iterations. *)
C25_LineLoopTerminates ==
    /\ pc # "panicked"
    /\ pc \in {"loop", "done"} =>
          /\ Between(ret.x0, ret.x, ret.x1)
          /\ Between(ret.y0, ret.y, ret.y1)
          /\ Max(Abs(ret.x - ret.x0), Abs(ret.y - ret.y0))
                = IF pc = "done" THEN ret.n - 1 ELSE ret.n
          /\ pc = "done" =>
                /\ ret.x = ret.x1 /\ ret.y = ret.y1
                /\ ret.n = Max(Abs(ret.x1 - ret.x0), Abs(ret.y1 - ret.y0)) + 1

----------------------------------------------------------------------------
(* Worker-count independence of draw_buffer                                  *)

\* one slice that borrows both buffers whole and covers rows 0..height
SingleSlice(t) ==
    [color_slice |-> t.color, depth_slice |-> t.depth,
     start |-> 0, end |-> t.height, width |-> t.width, base |-> 0]

\* the target after one worker has drawn the screen-space triangle list sv
\* into the single slice
single_slice_draw(t, sv, material, mode) ==
    join(t, <<slice_worker(NewAcc(SingleSlice(t)), chunks_exact(sv), 1,
                           material, mode, Screen(t)).slice>>)

(* C26: for a fixed target, screen-space triangle list, material and draw
   mode, the color and depth buffers when draw_buffer returns are the same
   under every interleaving of the slice workers and for every worker count
   from 1 to MaxThreads, and they are the buffers that one worker drawing
   into a single slice covering all rows produces. *)
C26_WorkerCountIndependence ==
    (lastOp = "draw_buffer" /\ draw # None) =>
        Let(single_slice_draw(before, screen_vertices, draw.material,
                              draw.mode), LAMBDA one :
            /\ target.color = one.color
            /\ target.depth = one.depth
            /\ \A n \in 1..MaxThreads :
                  draw_buffer(before, n, draw.model, draw.material, draw.mode,
                              draw.camera).target = one)

\* a call with several slices has returned after the workers of at least
\* two of them have written pixels
C26_Witness ==
    /\ lastOp = "draw_buffer"
    /\ draw # None
    /\ num_threads >= 2
    /\ Cardinality(UNION {writers[p] : p \in 1..Len(target.color)}) >= 2
    /\ target # before

----------------------------------------------------------------------------
(* SpecPixel: single fragments of draw_triangle and single draw_line and
   draw_point calls on one target, of renderer.rs (one slice covering all
   rows) or of lib.rs, up to MaxDraws of them after a clear                  *)

\* a screen-space triangle at one depth z and of one color
flat_triangle(a, b, c, z, color) ==
    [k \in 1..3 |->
        [Vertex_new(<<(<<a, b, c>>)[k][1], (<<a, b, c>>)[k][2], z>>)
            EXCEPT !.color = color]]

\* one with a vertex on x = width, one over the upper left corner and one
\* over the lower right corner of the target, each at two depths
PixelTriangles ==
    {flat_triangle(<<Width, 1>>, <<1, 0>>, <<0, 0>>, 4, Red),
     flat_triangle(<<Width, 1>>, <<1, 0>>, <<0, 0>>, 8, Green),
     flat_triangle(<<2, 0>>, <<0, 0>>, <<0, 2>>, 4, Red),
     flat_triangle(<<2, 0>>, <<0, 0>>, <<0, 2>>, 8, Green),
     flat_triangle(<<Width - 1, Height - 1>>, <<Width - 1, 1>>,
                   <<1, Height - 1>>, 6, Blue)}

\* the screen positions of the vertices given to draw_line and draw_point
OverlayPoints ==
    {<<-1, 1>>, <<0, 0>>, <<Width - 1, 0>>, <<Width, 2>>, <<1, Height - 1>>,
     <<2, 2>>}

LineColor == as_u32(White)

\* Color::new(0.5, 0.5, 0.5, 1.0).as_u32(), the color of lib.rs' points
LibPointColor == as_u32(Color_new(<<1, 2>>, <<1, 2>>, <<1, 2>>, R(1)))

\* `let size = 2.0` of both draw_buffer
PointSize == R(2)

\* draw_triangle of renderer.rs from the depth test on, for a fragment f
\* that has passed the index test
fragment_write(s, f) ==
    IF depth_test_skips(f.depth, s.depth_slice[f.idx + 1]) THEN s
    ELSE WriteDepth(WriteColor(s, {f}), {f})

\* the body of the loops of lib.rs' draw_triangle for the scanned (x, y), up
\* to the depth test: the fragment that reaches the test, or None
lib_draw_triangle_pixel(t, triangle, x, y) ==
    Let(point_in_triangle(xy(triangle[1]), xy(triangle[2]),
                          xy(triangle[3]), <<R(x), R(y)>>), LAMBDA pit :
        IF ~pit.inside THEN None
        ELSE
        LET idx == y * t.width + x
        IN  IF idx < wrapping_mul(t.width, t.height)
            THEN [x |-> x, y |-> y, idx |-> idx,
                  depth |-> fragment_depth(triangle, pit.weights),
                  color |-> as_u32(texture_color(VertexColors, triangle,
                                                 pit.weights))]
            ELSE None)

\* draw_triangle of lib.rs from the depth test on
lib_fragment_write(t, f) ==
    IF depth_test_skips(f.depth, t.depth[f.idx + 1]) THEN t
    ELSE [t EXCEPT !.color[f.idx + 1] = f.color,
                   !.depth[f.idx + 1] = f.depth]

\* draw_line of lib.rs: the end points are clamped to the target
lib_draw_line(t, p1, p2, color) ==
    LET x0 == clamp(AsI32(p1.position[1]), 0, t.width - 1)
        y0 == clamp(AsI32(p1.position[2]), 0, t.height - 1)
        x1 == clamp(AsI32(p2.position[1]), 0, t.width - 1)
        y1 == clamp(AsI32(p2.position[2]), 0, t.height - 1)
        dx == Abs(x1 - x0)
        dy == -Abs(y1 - y0)
        visits == draw_line_loop(x0, y0, dx + dy,
                       [x1 |-> x1, y1 |-> y1, dx |-> dx, dy |-> dy,
                        sx |-> IF x0 < x1 THEN 1 ELSE -1,
                        sy |-> IF y0 < y1 THEN 1 ELSE -1])
        hits == {q[2] * t.width + q[1] :
                   q \in {r \in visits :
                            /\ r[1] >= 0 /\ r[1] < t.width
                            /\ r[2] >= 0 /\ r[2] < t.height
                            /\ r[2] * t.width + r[1] < Len(t.color)}}
    IN  [t EXCEPT !.color = [i \in 1..Len(t.color) |->
                               IF i - 1 \in hits THEN color ELSE t.color[i]]]

\* draw_point of lib.rs
lib_draw_point(t, point, size, color) ==
    LET px == point.position[1]
        py == point.position[2]
        cs == R(RCeil(size))
        xs == AsU32(RSub(px, cs))..(AsU32(RAdd(px, cs)) - 1)
        ys == AsU32(RSub(py, cs))..(AsU32(RAdd(py, cs)) - 1)
        hits == {q[2] * t.width + q[1] :
                   q \in {r \in xs \X ys :
                            /\ r[2] * t.width + r[1]
                                  < wrapping_mul(t.width, t.height)
                            /\ LET ddx == RSub(R(r[1]), px)
                                   ddy == RSub(R(r[2]), py)
                               IN  RLt(RAdd(RMul(ddx, ddx), RMul(ddy, ddy)),
                                       RMul(size, size))}}
    IN  [t EXCEPT !.color = [i \in 1..Len(t.color) |->
                               IF i - 1 \in hits THEN color ELSE t.color[i]]]

\* draw records which of the two renderers the target belongs to
InitPixel ==
    /\ target = RenderTarget_new(Width, Height)
    /\ draw \in {[file |-> "renderer.rs"], [file |-> "lib.rs"]}
    /\ before = None
    /\ call = None
    /\ ret = None
    /\ files = None
    /\ pc = "idle"
    /\ lastOp = "new"
    /\ ndraws = 0
    /\ num_threads = 1
    /\ slices = << >>
    /\ screen_vertices = << >>
    /\ progress = << >>
    /\ writers = << >>
    /\ stepWrites = {}
    /\ frags = << >>
    /\ app = None

PixelUnchanged ==
    UNCHANGED <<num_threads, slices, pc, screen_vertices, progress, draw,
                writers, stepWrites, frags, app, ret, files>>

\* RenderTarget::clear
PixelClear ==
    /\ lastOp # "clear"
    /\ target' = clear(target)
    /\ before' = target
    /\ call' = None
    /\ lastOp' = "clear"
    /\ ndraws' = 0
    /\ PixelUnchanged

\* one pass of the loops of draw_triangle of renderer.rs that reaches the
\* depth test, for a triangle its draw_buffer keeps
PixelFragment(triangle, x, y) ==
    /\ draw.file = "renderer.rs"
    /\ ndraws < MaxDraws
    /\ is_visible(triangle, Screen(target))
    /\ x \in x_range(Bounds_new(triangle, Screen(target)))
    /\ y \in y_range(Bounds_new(triangle, Screen(target)))
    /\ \E f \in {draw_triangle_pixel(SingleSlice(target), triangle,
                                     VertexColors, x, y)} \ {None} :
          /\ target' = join(target, <<fragment_write(SingleSlice(target), f)>>)
          /\ call' = [fn |-> "draw_triangle", x |-> x, y |-> y,
                      depth |-> f.depth, color |-> f.color]
    /\ before' = target
    /\ lastOp' = "fragment"
    /\ ndraws' = ndraws + 1
    /\ PixelUnchanged

\* the same of draw_triangle of lib.rs
LibPixelFragment(triangle, x, y) ==
    /\ draw.file = "lib.rs"
    /\ ndraws < MaxDraws
    /\ lib_kept(triangle, target)
    /\ x \in x_range(Bounds_new(triangle, Screen(target)))
    /\ y \in y_range(Bounds_new(triangle, Screen(target)))
    /\ \E f \in {lib_draw_triangle_pixel(target, triangle, x, y)} \ {None} :
          /\ target' = lib_fragment_write(target, f)
          /\ call' = [fn |-> "draw_triangle", x |-> x, y |-> y,
                      depth |-> f.depth, color |-> f.color]
    /\ before' = target
    /\ lastOp' = "fragment"
    /\ ndraws' = ndraws + 1
    /\ PixelUnchanged

\* draw_line of renderer.rs between two vertices its draw_buffer keeps
OverlayLine(p1, p2) ==
    /\ draw.file = "renderer.rs"
    /\ ndraws < MaxDraws
    /\ is_visible(<<ScreenVertex(p1), ScreenVertex(p2)>>, Screen(target))
    /\ target' = join(target, <<draw_line(NewAcc(SingleSlice(target)),
                                          ScreenVertex(p1), ScreenVertex(p2),
                                          LineColor).slice>>)
    /\ call' = [fn |-> "draw_line", x0 |-> p1[1], y0 |-> p1[2],
                x1 |-> p2[1], y1 |-> p2[2], color |-> LineColor]
    /\ before' = target
    /\ lastOp' = "line"
    /\ ndraws' = ndraws + 1
    /\ PixelUnchanged

\* draw_line of lib.rs between two vertices its draw_buffer keeps
LibOverlayLine(p1, p2) ==
    /\ draw.file = "lib.rs"
    /\ ndraws < MaxDraws
    /\ lib_kept(GridTriangle(p1, p2, p2), target)
    /\ target' = lib_draw_line(target, ScreenVertex(p1), ScreenVertex(p2),
                               LineColor)
    /\ call' = [fn |-> "draw_line",
                x0 |-> clamp(p1[1], 0, target.width - 1),
                y0 |-> clamp(p1[2], 0, target.height - 1),
                x1 |-> clamp(p2[1], 0, target.width - 1),
                y1 |-> clamp(p2[2], 0, target.height - 1),
                color |-> LineColor]
    /\ before' = target
    /\ lastOp' = "line"
    /\ ndraws' = ndraws + 1
    /\ PixelUnchanged

\* draw_point of renderer.rs
OverlayPoint(p) ==
    /\ draw.file = "renderer.rs"
    /\ ndraws < MaxDraws
    /\ is_visible(<<ScreenVertex(p)>>, Screen(target))
    /\ target' = join(target, <<draw_point(NewAcc(SingleSlice(target)),
                                           ScreenVertex(p), PointSize,
                                           LineColor).slice>>)
    /\ call' = [fn |-> "draw_point", x |-> p[1], y |-> p[2],
                color |-> LineColor]
    /\ before' = target
    /\ lastOp' = "point"
    /\ ndraws' = ndraws + 1
    /\ PixelUnchanged

\* draw_point of lib.rs
LibOverlayPoint(p) ==
    /\ draw.file = "lib.rs"
    /\ ndraws < MaxDraws
    /\ lib_kept(GridTriangle(p, p, p), target)
    /\ target' = lib_draw_point(target, ScreenVertex(p), PointSize,
                                LibPointColor)
    /\ call' = [fn |-> "draw_point", x |-> p[1], y |-> p[2],
                color |-> LibPointColor]
    /\ before' = target
    /\ lastOp' = "point"
    /\ ndraws' = ndraws + 1
    /\ PixelUnchanged

NextPixel ==
    \/ PixelClear
    \/ \E triangle \in PixelTriangles, x \in 0..Width, y \in 0..Height :
          \/ PixelFragment(triangle, x, y)
          \/ LibPixelFragment(triangle, x, y)
    \/ \E p1 \in OverlayPoints, p2 \in OverlayPoints :
          \/ OverlayLine(p1, p2)
          \/ LibOverlayLine(p1, p2)
    \/ \E p \in OverlayPoints :
          \/ OverlayPoint(p)
          \/ LibOverlayPoint(p)

SpecPixel == InitPixel /\ [][NextPixel]_vars

\* the place of pixel (x, y) in the buffers
PixelIndex(x, y) == y * target.width + x + 1

OnTarget(x, y) ==
    0 <= x /\ x < target.width /\ 0 <= y /\ y < target.height

\* stored depths: f32::MAX is above every fragment's depth
DepthLe(a, b) == b = F32_MAX \/ (a # F32_MAX /\ RLe(a, b))

DepthGreater(depth, stored) == stored # F32_MAX /\ RLt(stored, depth)

(* C27: between two clear() calls no operation increases the stored depth of
   a pixel; a shaded fragment for the scanned pixel (x, y) whose depth is
   greater than the stored depth of pixel (x, y) changes nothing; one that
   is not greater sets the color and the depth of pixel (x, y) to its own
   and changes no other entry of either buffer; a fragment whose scanned
   position is no pixel of the target changes nothing. *)
C27_DepthTestedWrites ==
    /\ lastOp \in {"fragment", "line", "point"} =>
          \A p \in 1..Len(target.depth) :
              DepthLe(target.depth[p], before.depth[p])
    /\ lastOp = "fragment" =>
          IF ~OnTarget(call.x, call.y) THEN target = before
          ELSE LET p == PixelIndex(call.x, call.y) IN
               IF DepthGreater(call.depth, before.depth[p])
               THEN target = before
               ELSE /\ target.color[p] = call.color
                    /\ target.depth[p] = call.depth
                    /\ \A q \in 1..Len(target.color) \ {p} :
                          /\ target.color[q] = before.color[q]
                          /\ target.depth[q] = before.depth[q]

\* the pixels of the target an overlay call covers: the Bresenham segment
\* between the truncated end points of a line (lib.rs: between the clamped
\* end points), the pixels less than PointSize away from a point (the
\* points are at integer positions)
OverlayCover ==
    IF call.fn = "draw_line"
    THEN BresenhamPixels(call.x0, call.y0, call.x1, call.y1) \cap TargetRect
    ELSE {q \in TargetRect :
            (q[1] - call.x) * (q[1] - call.x)
              + (q[2] - call.y) * (q[2] - call.y)
                < AsI32(RMul(PointSize, PointSize))}

(* C28: a draw_line or draw_point call leaves every depth entry as it was;
   every pixel it covers has the call's color afterwards, whatever depth is
   stored for it, and every other pixel keeps the color it had. *)
C28_OverlaysBypassDepth ==
    lastOp \in {"line", "point"} =>
        /\ target.depth = before.depth
        /\ \A q \in TargetRect :
              target.color[PixelIndex(q[1], q[2])]
                 = IF q \in OverlayCover THEN call.color
                   ELSE before.color[PixelIndex(q[1], q[2])]

----------------------------------------------------------------------------
(* SpecCommands: the command queue of lib.rs with a UserState whose handlers
   push any of a few command scripts                                         *)

\* the longest queue the model lets resumed build up
MaxQueue == 4

\* SoftRastCommand
SetTitle(title) == [kind |-> "SetTitle", title |-> title]

SetRenderingMode(tris, wireframe, points) ==
    [kind |-> "SetRenderingMode", tris |-> tris, wireframe |-> wireframe,
     points |-> points]

\* Command::set_title
set_title(commands, title) == Append(commands, SetTitle(title))

\* Command::set_render_mode
set_render_mode(commands, tris, wireframe, points) ==
    Append(commands, SetRenderingMode(tris, wireframe, points))

\* what a handler of the UserState does with the Command it is given: the
\* calls it makes, in order (the third is MyApp's Update with the keys 2 and
\* 4 pressed)
Scripts ==
    {<< >>,
     <<SetTitle("a")>>,
     <<SetRenderingMode(FALSE, TRUE, FALSE), SetRenderingMode(TRUE, FALSE, FALSE)>>,
     <<SetRenderingMode(TRUE, TRUE, TRUE), SetTitle("b")>>,
     <<SetTitle("b"), SetRenderingMode(FALSE, FALSE, TRUE), SetTitle("a")>>}

\* the queue after a handler has run the calls k.. of its script
RECURSIVE run_script(_, _, _)
run_script(commands, script, k) ==
    IF k > Len(script) THEN commands
    ELSE run_script(IF script[k].kind = "SetTitle"
                    THEN set_title(commands, script[k].title)
                    ELSE set_render_mode(commands, script[k].tris,
                                         script[k].wireframe, script[k].points),
                    script, k + 1)

\* AppContext::new as far as the queue is concerned, and the history of the
\* model: the queue and the flags at the start of the last event, the
\* commands that event applied, in order, and what its handlers pushed
CommandContext_new ==
    [window         |-> FALSE,
     exiting        |-> FALSE,
     commands       |-> << >>,
     title          |-> "",
     draw_tris      |-> TRUE,
     draw_wireframe |-> TRUE,
     draw_points    |-> FALSE,
     last_event     |-> "new",
     queued         |-> << >>,
     applied        |-> << >>,
     pushed         |-> << >>,
     flags_before   |-> <<TRUE, TRUE, FALSE>>,
     title_set      |-> FALSE]

\* one arm of the match in the loop over command.commands
apply_command(a, c) ==
    IF c.kind = "SetTitle"
    THEN [a EXCEPT !.title = c.title, !.applied = Append(@, c)]
    ELSE [a EXCEPT !.draw_tris = c.tris,
                   !.draw_wireframe = c.wireframe,
                   !.draw_points = c.points,
                   !.applied = Append(@, c)]

\* `for command in self.command.commands.iter()` from element k on
RECURSIVE command_loop(_, _)
command_loop(a, k) ==
    IF k > Len(a.commands) THEN a
    ELSE command_loop(apply_command(a, a.commands[k]), k + 1)

drain_queue_no_clear(a) == command_loop(a, 1)

\* the head of window_event: the loop, then commands.clear()
drain_queue(a) == [command_loop(a, 1) EXCEPT !.commands = << >>]

\* the history is taken at the start of an event
event_begin(a, event) ==
    [a EXCEPT !.last_event = event,
              !.queued = a.commands,
              !.applied = << >>,
              !.pushed = << >>,
              !.flags_before = <<a.draw_tris, a.draw_wireframe, a.draw_points>>,
              !.title_set = FALSE]

\* a handler of the UserState runs a script on the Command
handle_event(a, script) ==
    [a EXCEPT !.commands = run_script(@, script, 1),
              !.pushed = run_script(@, script, 1)]

InitCommands ==
    /\ app = CommandContext_new
    /\ files = None
    /\ target = RenderTarget_new(0, 0)
    /\ num_threads = 1
    /\ slices = << >>
    /\ pc = "idle"
    /\ lastOp = "new"
    /\ IdleRestApp

\* ApplicationHandler::resumed: the Resume handler is given the Command
CommandsResumed(script) ==
    /\ ~app.exiting
    /\ Len(app.commands) + Len(script) <= MaxQueue
    /\ app' = [handle_event(event_begin(app, "resumed"), script)
                 EXCEPT !.window = TRUE]
    /\ RestApp

CommandsRunning == app.window /\ ~app.exiting

\* WindowEvent::Resized: a zero size returns at once, any other sets the
\* window title
CommandsResized(zero) ==
    /\ CommandsRunning
    /\ LET a == drain_queue(event_begin(app, "Resized")) IN
       app' = IF zero THEN a
              ELSE [a EXCEPT !.title = "Resized", !.title_set = TRUE]
    /\ RestApp

\* WindowEvent::CloseRequested
CommandsCloseRequested ==
    /\ CommandsRunning
    /\ app' = [drain_queue(event_begin(app, "CloseRequested"))
                 EXCEPT !.exiting = TRUE]
    /\ RestApp

\* WindowEvent::KeyboardInput and the events of the `_` arm
CommandsOtherEvent ==
    /\ CommandsRunning
    /\ app' = drain_queue(event_begin(app, "KeyboardInput"))
    /\ RestApp

\* WindowEvent::RedrawRequested: the Update handler, the Render handler when
\* a target and a scene exist, then the window title
CommandsRedrawRequested(update, rendering, render) ==
    /\ CommandsRunning
    /\ LET a == drain_queue(event_begin(app, "RedrawRequested"))
           u == handle_event(a, update)
           r == IF rendering THEN handle_event(u, render) ELSE u
       IN  app' = [r EXCEPT !.title = "RedrawRequested", !.title_set = TRUE]
    /\ RestApp

NextCommands ==
    \/ \E script \in Scripts : CommandsResumed(script)
    \/ \E zero \in BOOLEAN : CommandsResized(zero)
    \/ CommandsCloseRequested
    \/ CommandsOtherEvent
    \/ \E update \in Scripts, rendering \in BOOLEAN,
          render \in {<< >>, <<SetTitle("a")>>} :
         CommandsRedrawRequested(update, rendering, render)

SpecCommands == InitCommands /\ [][NextCommands]_vars

\* the SetRenderingMode and the SetTitle commands of a queue, in order
ModesOf(commands) ==
    SelectSeq(commands, LAMBDA c : c.kind = "SetRenderingMode")

TitlesOf(commands) == SelectSeq(commands, LAMBDA c : c.kind = "SetTitle")

Flags == <<app.draw_tris, app.draw_wireframe, app.draw_points>>

(* C29: a window event applies the commands queued before it in push order,
   each exactly once, and none of them is in the queue afterwards (the
   queue then holds only what the event's own handlers pushed); after the
   event the draw flags are those of the last SetRenderingMode that was
   queued, and when none was queued, and after resumed, the flags are what
   they were before; a title set by the event's commands and not by the
   event itself is that of the last SetTitle queued. *)
C29_CommandQueue ==
    /\ app.last_event = "resumed" =>
          /\ Flags = app.flags_before
          /\ app.applied = << >>
          /\ app.commands = app.queued \o app.pushed
    /\ app.last_event \in {"Resized", "CloseRequested", "KeyboardInput",
                           "RedrawRequested"} =>
          /\ app.applied = app.queued
          /\ app.commands = app.pushed
          /\ Flags = IF ModesOf(app.queued) = << >> THEN app.flags_before
                     ELSE LET m == ModesOf(app.queued)[Len(ModesOf(app.queued))]
                          IN  <<m.tris, m.wireframe, m.points>>
          /\ (~app.title_set /\ TitlesOf(app.queued) # << >>) =>
                app.title = TitlesOf(app.queued)[Len(TitlesOf(app.queued))].title

\* a window event has applied a queue with two different SetRenderingMode
\* commands and a SetTitle after them, pushed by two handlers, and its Update
\* handler has queued commands again
C29_Witness ==
    /\ app.last_event = "RedrawRequested"
    /\ Len(ModesOf(app.queued)) >= 2
    /\ ModesOf(app.queued)[1] # ModesOf(app.queued)[Len(ModesOf(app.queued))]
    /\ app.queued[Len(app.queued)].kind = "SetTitle"
    /\ app.pushed # << >>
    /\ Flags # app.flags_before

====
